---- MODULE Spec2Model ----
(***************************************************************************)
(* A model of the CAPES portal scraper (src/src/scraper.ts):               *)
(*   - _fetchWithZyte: the proxied fetch with its retry/backoff loop,      *)
(*   - getListingsForTerm / fetchPage / search / searchPreview: the        *)
(*     listing paginator and the calls built on it,                        *)
(*   - fetchArticleDetails / scrapeArticleDetail: the detail enricher.     *)
(* Strings whose content the code inspects (error messages, URLs) are      *)
(* sequences of one-character strings.  An object is the set of its own   *)
(* property names with a function giving the values of those that are not  *)
(* `undefined`.                                                            *)
(***************************************************************************)
EXTENDS Integers, Sequences, FiniteSets, TLC

VARIABLES
    \* ---- _fetchWithZyte (one call) ----
    zyteApiKey,     \* TRUE iff ZYTE_API_KEY is set (this.zyteApiKey non-empty)
    maxRetries,     \* the maxRetries parameter of the call
    attempt,        \* the loop variable `attempt`
    fpc,            \* position of the call: start/request/body/sleep/returned/thrown
    history,        \* names of the proxy's answers, one per request issued
    sleeps,         \* the arguments of the sleep() calls made, in order
    fresult,        \* the returned string (bytes) or the thrown error message

    \* ---- getListingsForTerm / search / searchPreview (one call) ----
    op,             \* which entry point runs: "search", "searchPreview" or
                    \* "getArticles"
    totalItems,     \* number of results the portal holds for the query
    spanPresent,    \* whether page 1 carries the pagination-summary element
    noIdEntries,    \* positions of listing entries whose link carries no id
    max_results,    \* options.max_results (0 = not set)
    max_pages,      \* options.max_pages (0 = not set)
    maxWorkers,     \* the maxWorkers argument (0 = not given)
    full_details,   \* options.full_details
    include_metrics,\* options.include_metrics
    spc,            \* position of the call: start/page1/loop/await/listed/
                    \* details/preview/done
    totalPages,     \* the local totalPages of getListingsForTerm
    page,           \* the loop variable `page`
    pagePromises,   \* pages of the current batch, in push order
    inFlight,       \* pages whose fetch has started and not completed
    pageResult,     \* page -> records returned by its fetchPage
    fetched,        \* pages for which a fetch was issued, in issue order
    failedPages,    \* pages whose fetch failed
    listings,       \* the accumulated `listings`
    returned,       \* what getListingsForTerm returned
    sresult,        \* what the entry point returned or threw

    \* ---- fetchArticleDetails (one call) ----
    articleListings,\* the input list of basic records
    workersArg,     \* the maxWorkers argument (0 = not given)
    dIncludeMetrics,\* options.include_metrics of the call
    dpc,            \* position of the call: loop/await/metrics/done
    batchStart,     \* the loop variable `i`
    dInFlight,      \* indices whose detail fetch has started and not completed
    dFetches,       \* indices for which a detail fetch was issued, in order
    dFailed,        \* indices whose detail fetch or parsing failed
    batchResults,   \* index -> value its processArticle promise resolved to
    articles,       \* the accumulated `articles`

    \* ---- enrichWithMetrics (one call) ----
    mArticles,      \* the articles handed in: the kind of ISSN and DOI of each
    mpc,            \* position of the call: start/batches/fetching/body/
                    \* text/delay/done
    mMetrics,       \* index -> the article's `metrics`, once it has one
    mNext,          \* the loop variable `i` of getMetricsByDOIs
    mResults,       \* the `results` map of getMetricsByDOIs: DOI -> metrics
    mOutcomes,      \* how each citation batch ended, in order
    mRequests,      \* the batches sent to the citation service, in order
    mInFlight,      \* the numbers of the requests sent and not yet answered
    mSleeps,        \* the delays taken: after which request, how long

    \* ---- OpenAlexService.getMetricsByDOI (one call) ----
    wpc,            \* position of the call: start/fetching/body/done
    wDoi,           \* the doi argument
    wRequests,      \* the urls requested from the citation service, in order
    wInFlight,      \* the numbers of the requests sent and not yet answered
    wAnswer,        \* how the citation service answered: a status, or
                    \* "rejected" when fetch threw
    wReturned,      \* what the call returned: metrics or null

    \* ---- exportToRISFile / exportToBibTeXFile, exportSearch / searchArticles ----
    eOp,            \* the operation called: "file", "exportSearch", "searchArticles"
    eCall,          \* the number of the call under way
    fsWrites,       \* the files written, in order: path, call and clock
    xResult,        \* the ExportResult returned by a search export, or its error
    eArticles,      \* the articles handed in, each by its sketch
    eFormat,        \* "ris" or "bibtex"
    eOutputDir,     \* the outputDir argument, if given
    eFilename,      \* the filename argument, if given
    eTotalFound,    \* total_found of the result of the call's search
    eNow,           \* what new Date() gave last
    eDirNow,        \* what new Date() gave for the name of the directory
    ePreviewTotal,  \* total_found of the preview of searchArticles
    epc,            \* position of the call: preview/search/start/content/
                    \* metadata/done
    eRecords,       \* the records pushed by exportToRIS / exportToBibTeX
    eContent,       \* the text exportToRIS / exportToBibTeX returned
    fsDirs,         \* the directories that exist
    fsFiles,        \* path -> content of the files that exist
    eResult,        \* the ExportFileResult returned

    \* ---- getArticles (one call) ----
    gStartIndex,    \* the startIndex argument
    gCount,         \* the count argument
    gpc,            \* position of the call: start/pages/page/details/
                    \* preview/done
    gPage,          \* the loop variable `page`
    gAllArticles,   \* the accumulated `allArticles`
    gFailedPages,   \* pages whose fetch failed
    gResult         \* the ArticlesBatchResult returned, or the error thrown

fetchVars  == <<zyteApiKey, maxRetries, attempt, fpc, history, sleeps, fresult>>
searchVars == <<op, totalItems, spanPresent, noIdEntries, max_results, max_pages,
                maxWorkers, full_details, include_metrics, spc, totalPages,
                page, pagePromises,
                inFlight, pageResult, fetched, failedPages, listings, returned,
                sresult>>
detailVars == <<articleListings, workersArg, dIncludeMetrics, dpc, batchStart, dInFlight,
                dFetches, dFailed, batchResults, articles>>
workVars   == <<wpc, wDoi, wRequests, wInFlight, wAnswer, wReturned>>
metricVars == <<mArticles, mpc, mMetrics, mNext, mResults, mOutcomes,
                mRequests, mInFlight, mSleeps, workVars>>
exportVars == <<eOp, eCall, fsWrites, xResult, eArticles, eFormat, eOutputDir,
                eFilename, eTotalFound, eNow, eDirNow, ePreviewTotal, epc,
                eRecords, eContent, fsDirs, fsFiles, eResult>>
getVars    == <<gStartIndex, gCount, gpc, gPage, gAllArticles, gFailedPages,
                gResult>>
vars == <<fetchVars, searchVars, detailVars, metricVars, exportVars, getVars>>

----------------------------------------------------------------------------
(* Strings as character sequences                                          *)

\* String.prototype.includes
Includes(s, sub) ==
    \E i \in 1..(Len(s) - Len(sub) + 1) : SubSeq(s, i, i + Len(sub) - 1) = sub

DigitChar(d) ==
    CASE d = 0 -> "0" [] d = 1 -> "1" [] d = 2 -> "2" [] d = 3 -> "3"
      [] d = 4 -> "4" [] d = 5 -> "5" [] d = 6 -> "6" [] d = 7 -> "7"
      [] d = 8 -> "8" [] d = 9 -> "9"

\* the decimal text of a non-negative number, as a template literal prints it
RECURSIVE NumberToString(_)
NumberToString(n) ==
    IF n < 10 THEN <<DigitChar(n)>>
    ELSE NumberToString(n \div 10) \o <<DigitChar(n % 10)>>

----------------------------------------------------------------------------
(* _fetchWithZyte                                                          *)

\* largest retry budget explored
MaxRetriesBound == 6

\* maxRetries: number = 3
DefaultMaxRetries == 3

\* the targetUrl argument of the modelled call
TargetUrl ==
    <<"h","t","t","p","s",":","/","/","p",".","b","r","/","b","u","s","c",
      "a","d","o","r",".","h","t","m","l","?","q","=","m","l","&","s","o",
      "u","r","c","e","=","a","l","l">>

TextNoKey ==
    <<"Z","Y","T","E","_","A","P","I","_","K","E","Y"," ","e","n","v","i",
      "r","o","n","m","e","n","t"," ","v","a","r","i","a","b","l","e"," ",
      "i","s"," ","r","e","q","u","i","r","e","d","."," ","P","l","e","a",
      "s","e"," ","s","e","t"," ","i","t"," ","i","n"," ","y","o","u","r",
      " ",".","e","n","v"," ","f","i","l","e",".">>

TextPersistent520 ==
    <<"Z","y","t","e"," ","A","P","I"," ","p","e","r","s","i","s","t","e",
      "n","t"," ","5","2","0"," ","e","r","r","o","r"," ","a","f","t","e",
      "r"," ">>

TextRetries ==
    <<" ","r","e","t","r","i","e","s",":"," ">>

TextApiError ==
    <<"Z","y","t","e"," ","A","P","I"," ","e","r","r","o","r",":"," ">>

TextFailedFor ==
    <<"F","a","i","l","e","d"," ","t","o"," ","f","e","t","c","h"," ","f",
      "r","o","m"," ","Z","y","t","e"," ","f","o","r"," ","U","R","L"," ">>

TextUnexpected ==
    <<"U","n","e","x","p","e","c","t","e","d"," ","e","r","r","o","r"," ",
      "i","n"," ","_","f","e","t","c","h","W","i","t","h","Z","y","t","e",
      " ","f","o","r"," ">>

TextFetchFailed ==
    <<"f","e","t","c","h"," ","f","a","i","l","e","d">>

Text520 == <<"5","2","0">>

B64Alphabet ==
    <<"A","B","C","D","E","F","G","H","I","J","K","L","M","N","O","P","Q",
      "R","S","T","U","V","W","X","Y","Z","a","b","c","d","e","f","g","h",
      "i","j","k","l","m","n","o","p","q","r","s","t","u","v","w","x","y",
      "z","0","1","2","3","4","5","6","7","8","9","+","/">>

B64Value(c) == (CHOOSE i \in 1..64 : B64Alphabet[i] = c) - 1

\* Buffer.from(text, 'base64'): the bytes of a padded base64 text
RECURSIVE Base64Decode(_)
Base64Decode(t) ==
    IF Len(t) < 4 THEN <<>>
    ELSE LET a == B64Value(t[1])
             b == B64Value(t[2])
             b1 == a * 4 + (b \div 16)
             rest == Base64Decode(SubSeq(t, 5, Len(t)))
         IN  IF t[3] = "=" THEN <<b1>>
             ELSE LET c == B64Value(t[3])
                      b2 == (b % 16) * 16 + (c \div 4)
                  IN  IF t[4] = "=" THEN <<b1, b2>>
                      ELSE <<b1, b2, (c % 4) * 64 + B64Value(t[4])>> \o rest

\* What the extraction proxy can answer to one request.  "ok200" carries the
\* base64 of the page "<p>"; "ok200bad" is a success answer whose body does
\* not yield the page; "err503" is a non-success answer whose status text
\* happens to contain the digits 520; "netfail" is fetch() rejecting.
ProxyAnswers ==
    {"ok200", "ok200bad", "ban520", "err500", "err503", "netfail"}

Answer(name) ==
    CASE name = "ok200"  -> [kind |-> "response", status |-> 200,
                             statusText |-> <<"O","K">>,
                             httpResponseBody |-> <<"P","H","A","+">>]
      [] name = "ok200bad" -> [kind |-> "response", status |-> 200,
                               statusText |-> <<"O","K">>,
                               httpResponseBody |-> <<>>]
      [] name = "ban520" -> [kind |-> "response", status |-> 520,
                             statusText |-> <<>>,
                             httpResponseBody |-> <<>>]
      [] name = "err500" -> [kind |-> "response", status |-> 500,
                             statusText |-> <<"E","r","r","o","r">>,
                             httpResponseBody |-> <<>>]
      [] name = "err503" -> [kind |-> "response", status |-> 503,
                             statusText |-> <<"E","5","2","0">>,
                             httpResponseBody |-> <<>>]
      [] name = "netfail" -> [kind |-> "throw", message |-> TextFetchFailed]

\* how lines 78-79 fail on the body of "ok200bad": the body is not JSON,
\* its stream breaks, or the object read has no httpResponseBody
BodyFailures == {"notJson", "stream", "noBody"}

\* the message of the error the runtime raises for a failure of the body
BodyErrorMessage(failure) ==
    CASE failure = "notJson" ->
           <<"U","n","e","x","p","e","c","t","e","d"," ","t","o","k","e","n"," ","'","<","'",","," ","\"","<","h","t","m","l",">","\""," ","i","s"," ","n","o","t"," ","v","a","l","i","d"," ","J","S","O","N">>
      [] failure = "stream" -> <<"t","e","r","m","i","n","a","t","e","d">>
      [] failure = "noBody" ->
           <<"T","h","e"," ","f","i","r","s","t"," ","a","r","g","u","m","e","n","t"," ","m","u","s","t"," ","b","e"," ","o","f"," ","t","y","p","e"," ","s","t","r","i","n","g"," ","o","r"," ","a","n"," ","i","n","s","t","a","n","c","e"," ","o","f"," ","B","u","f","f","e","r",","," ","A","r","r","a","y","B","u","f","f","e","r",","," ","o","r"," ","A","r","r","a","y"," ","o","r"," ","a","n"," ","A","r","r","a","y","-","l","i","k","e"," ","O","b","j","e","c","t","."," ","R","e","c","e","i","v","e","d"," ","u","n","d","e","f","i","n","e","d">>

\* Response.ok
ResponseOk(status) == status >= 200 /\ status <= 299

\* mutant: the loop bound of line 50 off by one
LoopContinues_OffByOne(a, n) == a <= n

\* for (let attempt = 1; attempt <= maxRetries + 1; attempt++)
LoopContinues(a, n) == a <= n + 1

\* if (attempt <= maxRetries)   -- a 520 answer may still be retried
MayRetry520(a, n) == a <= n

\* mutant: the catch block never retries
IsLastAttempt_Always(a, n) == TRUE

\* mutant: the catch block retries once only
IsLastAttempt_OneRetry(a, n) == a > 1

\* if (attempt > maxRetries)    -- the catch block gives up
IsLastAttempt(a, n) == a > n

\* mutant: the backoff without its 30 s cap
BackoffMs_NoCap(a) == 1000 * (2 ^ (a - 1))

\* Math.min(1000 * Math.pow(2, attempt - 1), 30000)
BackoffMs(a) ==
    LET raw == 1000 * (2 ^ (a - 1)) IN IF raw < 30000 THEN raw ELSE 30000

\* !error.message.includes('520')
BackoffInCatch(message) == ~Includes(message, Text520)

MessagePersistent520(n, statusText) ==
    TextPersistent520 \o NumberToString(n) \o TextRetries \o statusText

MessageApiError(status, statusText) ==
    TextApiError \o NumberToString(status) \o <<" ">> \o statusText

MessageFailedFor(url, message) ==
    TextFailedFor \o url \o <<":", " ">> \o message

NoResult == [kind |-> "none"]

InitFetch ==
    /\ zyteApiKey \in BOOLEAN
    /\ maxRetries \in 0..MaxRetriesBound
    /\ attempt = 1
    /\ fpc = "start"
    /\ history = <<>>
    /\ sleeps = <<>>
    /\ fresult = NoResult

IdleFetch ==
    /\ zyteApiKey = TRUE
    /\ maxRetries = DefaultMaxRetries
    /\ attempt = 1
    /\ fpc = "idle"
    /\ history = <<>>
    /\ sleeps = <<>>
    /\ fresult = NoResult

\* lines 41-50: the key check and the first loop test
FetchEnter ==
    /\ fpc = "start"
    /\ IF ~zyteApiKey
       THEN /\ fpc' = "thrown"
            /\ fresult' = [kind |-> "error", message |-> TextNoKey]
       ELSE IF LoopContinues(attempt, maxRetries)
       THEN /\ fpc' = "request"
            /\ fresult' = fresult
       ELSE /\ fpc' = "thrown"
            /\ fresult' = [kind |-> "error",
                           message |-> TextUnexpected \o TargetUrl]
    /\ UNCHANGED <<zyteApiKey, maxRetries, attempt, history, sleeps>>
    /\ UNCHANGED <<searchVars, detailVars, metricVars, exportVars, getVars>>

\* attempt++ and the loop test, after `continue` or after the catch block
NextIteration ==
    /\ attempt' = attempt + 1
    /\ IF LoopContinues(attempt + 1, maxRetries)
       THEN /\ fpc' = "request"
            /\ fresult' = fresult
       ELSE /\ fpc' = "thrown"
            /\ fresult' = [kind |-> "error",
                           message |-> TextUnexpected \o TargetUrl]

\* lines 81-95: the catch block, entered with the error's message
Catch(message) ==
    IF IsLastAttempt(attempt, maxRetries)
    THEN /\ fpc' = "thrown"
         /\ fresult' = [kind |-> "error",
                        message |-> MessageFailedFor(TargetUrl, message)]
         /\ UNCHANGED <<attempt, sleeps>>
    ELSE IF BackoffInCatch(message)
    THEN /\ fpc' = "sleep"
         /\ sleeps' = Append(sleeps, BackoffMs(attempt))
         /\ UNCHANGED <<attempt, fresult>>
    ELSE /\ NextIteration
         /\ UNCHANGED sleeps

\* lines 52-78 with a success answer: response.json() is awaited
RequestOk ==
    /\ fpc = "request"
    /\ \E name \in ProxyAnswers :
         LET r == Answer(name) IN
         /\ r.kind = "response" /\ r.status # 520 /\ ResponseOk(r.status)
         /\ history' = Append(history, name)
         /\ fpc' = "body"
    /\ UNCHANGED <<zyteApiKey, maxRetries, attempt, sleeps, fresult>>
    /\ UNCHANGED <<searchVars, detailVars, metricVars, exportVars, getVars>>

\* lines 78-79: the body was read as JSON; decode and return
BodyOk ==
    /\ fpc = "body" /\ history[Len(history)] = "ok200"
    /\ fpc' = "returned"
    /\ fresult' = [kind |-> "value",
                   value |-> Base64Decode(
                       Answer(history[Len(history)]).httpResponseBody)]
    /\ UNCHANGED <<zyteApiKey, maxRetries, attempt, history, sleeps>>
    /\ UNCHANGED <<searchVars, detailVars, metricVars, exportVars, getVars>>

\* lines 78-81: response.json() rejects or Buffer.from throws
BodyFails ==
    /\ fpc = "body" /\ history[Len(history)] = "ok200bad"
    /\ \E failure \in BodyFailures : Catch(BodyErrorMessage(failure))
    /\ UNCHANGED <<zyteApiKey, maxRetries, history>>
    /\ UNCHANGED <<searchVars, detailVars, metricVars, exportVars, getVars>>

\* lines 62-72: the answer is HTTP 520
Request520 ==
    /\ fpc = "request"
    /\ \E name \in ProxyAnswers :
         LET r == Answer(name) IN
         /\ r.kind = "response" /\ r.status = 520
         /\ history' = Append(history, name)
         /\ IF MayRetry520(attempt, maxRetries)
            THEN /\ fpc' = "sleep"
                 /\ sleeps' = Append(sleeps, BackoffMs(attempt))
                 /\ UNCHANGED <<attempt, fresult>>
            ELSE Catch(MessagePersistent520(maxRetries, r.statusText))
    /\ UNCHANGED <<zyteApiKey, maxRetries>>
    /\ UNCHANGED <<searchVars, detailVars, metricVars, exportVars, getVars>>

\* lines 74-76: another non-success status
RequestNotOk ==
    /\ fpc = "request"
    /\ \E name \in ProxyAnswers :
         LET r == Answer(name) IN
         /\ r.kind = "response" /\ r.status # 520 /\ ~ResponseOk(r.status)
         /\ history' = Append(history, name)
         /\ Catch(MessageApiError(r.status, r.statusText))
    /\ UNCHANGED <<zyteApiKey, maxRetries>>
    /\ UNCHANGED <<searchVars, detailVars, metricVars, exportVars, getVars>>

\* line 52 rejects: a network error
RequestThrows ==
    /\ fpc = "request"
    /\ \E name \in ProxyAnswers :
         LET r == Answer(name) IN
         /\ r.kind = "throw"
         /\ history' = Append(history, name)
         /\ Catch(r.message)
    /\ UNCHANGED <<zyteApiKey, maxRetries>>
    /\ UNCHANGED <<searchVars, detailVars, metricVars, exportVars, getVars>>

\* the sleep() of line 67 or line 93 resolves
Wake ==
    /\ fpc = "sleep"
    /\ NextIteration
    /\ UNCHANGED <<zyteApiKey, maxRetries, history, sleeps>>
    /\ UNCHANGED <<searchVars, detailVars, metricVars, exportVars, getVars>>

----------------------------------------------------------------------------
(* JavaScript objects.  An object is [keys, vals]: `keys` are its own       *)
(* property names and `vals` maps the names whose value is not undefined   *)
(* to that value, so a property set to undefined is in keys and not in     *)
(* DOMAIN vals.                                                            *)

EmptyObject == [keys |-> {}, vals |-> <<>>]

\* the property has a value other than undefined
Has(o, k) == k \in DOMAIN o.vals

\* mutant: the properties of a win over those of b
Spread_FirstWins(a, b) ==
    [keys |-> a.keys \cup b.keys,
     vals |-> [k \in (DOMAIN a.vals) \cup ((DOMAIN b.vals) \ a.keys) |->
                  IF k \in a.keys THEN a.vals[k] ELSE b.vals[k]]]

\* { ...a, ...b }: every own property of b, also one set to undefined,
\* replaces a's
Spread(a, b) ==
    [keys |-> a.keys \cup b.keys,
     vals |-> [k \in ((DOMAIN a.vals) \ b.keys) \cup DOMAIN b.vals |->
                  IF k \in b.keys THEN b.vals[k] ELSE a.vals[k]]]

\* optional raw values: <<>> is "no value", <<v>> is the value v
None == <<>>
Some(v) == <<v>>

\* String.prototype.trim, for the blank characters the model uses
RECURSIVE TrimStart(_)
TrimStart(s) ==
    IF s # <<>> /\ Head(s) = " " THEN TrimStart(Tail(s)) ELSE s

RECURSIVE TrimEnd(_)
TrimEnd(s) ==
    IF s # <<>> /\ s[Len(s)] = " " THEN TrimEnd(SubSeq(s, 1, Len(s) - 1)) ELSE s

Trim(s) == TrimEnd(TrimStart(s))

\* the rest of a string after its leading \s characters
RECURSIVE TrimWhitespaceStart(_)
TrimWhitespaceStart(s) ==
    IF s # <<>> /\ Head(s) \in {" ", "\n", "\r", "\t"}
    THEN TrimWhitespaceStart(Tail(s)) ELSE s

\* String.prototype.startsWith
StartsWith(s, prefix) ==
    Len(s) >= Len(prefix) /\ SubSeq(s, 1, Len(prefix)) = prefix

\* Math.ceil(a / b) for a >= 0, b > 0
CeilDiv(a, b) == (a + b - 1) \div b

\* Math.min
Min(a, b) == IF a < b THEN a ELSE b

\* Array.prototype.slice(0, n), n >= 0
SliceTo(seq, n) == SubSeq(seq, 1, Min(n, Len(seq)))

----------------------------------------------------------------------------
(* The portal: result entries and listing pages                            *)

\* const itemsPerPage = 30 / const perPage = 30
ItemsPerPage == 30

PortalOrigin ==
    <<"h","t","t","p","s",":","/","/","w","w","w",".","p","e","r","i","o",
      "d","i","c","o","s",".","c","a","p","e","s",".","g","o","v",".","b",
      "r">>

DETAIL_URL_PATTERN ==
    <<"h","t","t","p","s",":","/","/","w","w","w",".","p","e","r","i","o",
      "d","i","c","o","s",".","c","a","p","e","s",".","g","o","v",".","b",
      "r","/","i","n","d","e","x",".","p","h","p","/","a","c","e","r","v",
      "o","/","b","u","s","c","a","d","o","r",".","h","t","m","l","?","t",
      "a","s","k","=","d","e","t","a","l","h","e","s","&","s","o","u","r",
      "c","e","=","a","l","l","&","i","d","=">>

TextNoTitle ==
    <<"N","o"," ","t","i","t","l","e"," ","f","o","u","n","d">>

TextHttp == <<"h","t","t","p">>

\* the characters of the class [A-Z0-9]
UpperAlnum ==
    {"A","B","C","D","E","F","G","H","I","J","K","L","M","N","O","P","Q",
     "R","S","T","U","V","W","X","Y","Z","0","1","2","3","4","5","6","7",
     "8","9"}

\* the query of the modelled call (options.query)
Query == <<"m","l">>

\* static BASE_URL
BASE_URL == PortalOrigin \o <<"/","i","n","d","e","x",".","p","h","p","/","a","c","e","r","v","o","/","b","u","s","c","a","d","o","r",".","h","t","m","l">>

\* encodeURIComponent, for the characters of the modelled queries
RECURSIVE EncodeURIComponent(_)
EncodeURIComponent(s) ==
    IF s = <<>> THEN <<>>
    ELSE (CASE Head(s) = ":" -> <<"%","3","A">>
            [] Head(s) = " " -> <<"%","2","0">>
            [] Head(s) = "=" -> <<"%","3","D">>
            [] Head(s) = "&" -> <<"%","2","6">>
            [] Head(s) = "/" -> <<"%","2","F">>
            [] OTHER -> <<Head(s)>>)
           \o EncodeURIComponent(Tail(s))

\* s.replace(/\(/g, '%28').replace(/\)/g, '%29').replace(/%20/g, '+')
RECURSIVE EncodeParensAndBlanks(_)
EncodeParensAndBlanks(s) ==
    IF s = <<>> THEN <<>>
    ELSE IF Head(s) = "(" THEN <<"%","2","8">> \o EncodeParensAndBlanks(Tail(s))
    ELSE IF Head(s) = ")" THEN <<"%","2","9">> \o EncodeParensAndBlanks(Tail(s))
    ELSE IF StartsWith(s, <<"%","2","0">>)
    THEN <<"+">> \o EncodeParensAndBlanks(SubSeq(s, 4, Len(s)))
    ELSE <<Head(s)>> \o EncodeParensAndBlanks(Tail(s))

\* lines 133-178: the URL of a listing page, for options without filters
ConstructSearchUrl(searchTerm, advanced, pageNo) ==
    LET searchQuery == IF advanced
                       THEN <<"a","l","l",":","c","o","n","t","a","i","n","s","(">> \o searchTerm \o <<")">>
                       ELSE searchTerm
        encodedTerm == EncodeParensAndBlanks(EncodeURIComponent(searchQuery))
    IN  BASE_URL \o <<"?","q","=">> \o encodedTerm \o <<"&","s","o","u","r","c","e","=","a","l","l">>
          \o (IF advanced THEN <<"&","m","o","d","e","=","a","d","v","a","n","c","e","d">> ELSE <<>>)
          \o (IF pageNo > 1 THEN <<"&","p","a","g","e","=">> \o NumberToString(pageNo) ELSE <<>>)

\* lines 655-657: the URL searchPreview fetches
PreviewUrl == ConstructSearchUrl(Query, TRUE, 1)

\* the text of the p.text-down-01 paragraphs of the entry at a position:
\* year, publisher and journal; year and journal; year and publisher before
\* a bar with nothing after it; or a paragraph without a bar
EntryParagraphs(pos) ==
    IF pos % 3 # 2
    THEN IF pos % 2 = 0
         THEN << <<"2","0","2","0"," ","-"," ","P","u","b"," ","|"," ","J">> \o NumberToString(pos % 3) >>
         ELSE << <<"2","0","2","0"," ","|"," ","J">> \o NumberToString(pos % 3) >>
    ELSE IF pos % 2 = 0
         THEN << <<"2","0","2","0"," ","-"," ","P","u","b"," ","|"," ">> >>
         ELSE << <<"2","0","2","0">> >>

\* The entry at 0-based position pos of the portal's result list, as the
\* markup of its .result-busca section.  A linked entry carries a relative
\* href with an id; an unlinked one has no href (even positions) or an href
\* whose id is not in [A-Z0-9] (odd positions).  The text of the
\* .fw-semibold element, when there is one, stands between blanks at even
\* positions.
PortalEntry(pos, linked) ==
    [titleText |-> <<" ","A","r","t","i","c","l","e"," ">>
                      \o NumberToString(pos) \o <<" ">>,
     href |-> IF linked
              THEN Some(<<"/","b",".","h","t","m","l","?","i","d","=","W">>
                          \o NumberToString(pos))
              ELSE IF pos % 2 = 0 THEN None
              ELSE Some(<<"/","b",".","h","t","m","l","?","i","d","=","w">>),
     paragraphs |-> EntryParagraphs(pos),
     authorLinks |-> IF pos % 4 = 1 THEN <<>>
                     ELSE IF pos % 4 = 2
                     THEN << <<"A","u">> \o NumberToString(pos), <<" ">>,
                             <<" ","A","u">> \o NumberToString(pos) >>
                     ELSE << <<"A","u">> \o NumberToString(pos),
                             <<"B","o">> >>,
     isOpenAccess |-> (pos % 2 = 0),
     isPeerReviewed |-> (pos % 3 = 0),
     documentType |-> IF pos % 4 = 3 THEN None
                      ELSE IF pos % 2 = 0
                      THEN Some(<<" ","A","r","t","i","g","o"," ">>)
                      ELSE Some(<<"A","r","t","i","g","o">>)]

\* url.match(/id=([A-Z0-9]+)/): the capture of the leftmost match, if any
RECURSIVE RunOf(_, _, _)
RunOf(s, i, class) ==
    IF i <= Len(s) /\ s[i] \in class
    THEN <<s[i]>> \o RunOf(s, i + 1, class) ELSE <<>>

ExtractArticleIdFromUrl(url) ==
    LET starts == {i \in 1..(Len(url) - 3) :
                      /\ url[i] = "i" /\ url[i + 1] = "d" /\ url[i + 2] = "="
                      /\ url[i + 3] \in UpperAlnum}
    IN  IF starts = {} THEN None
        ELSE LET i == CHOOSE j \in starts : \A m \in starts : j <= m
             IN  Some(RunOf(url, i + 3, UpperAlnum))

\* lines 252-258: the trimmed, non-empty author names, first occurrences only
RECURSIVE ListingAuthors(_, _)
ListingAuthors(links, authors) ==
    IF links = <<>> THEN authors
    ELSE LET authorName == Trim(Head(links))
         IN  ListingAuthors(Tail(links),
                 IF authorName # <<>> /\ \A i \in 1..Len(authors) :
                                            authors[i] # authorName
                 THEN Append(authors, authorName) ELSE authors)

\* String.prototype.split(sep) for a separator of one character
RECURSIVE Split(_, _)
Split(s, sep) ==
    IF \A i \in 1..Len(s) : s[i] # sep THEN <<s>>
    ELSE LET i == CHOOSE j \in 1..Len(s) :
                      s[j] = sep /\ \A m \in 1..(j - 1) : s[m] # sep
         IN  <<SubSeq(s, 1, i - 1)>> \o Split(SubSeq(s, i + 1, Len(s)), sep)

\* lines 232-249: journal and publisher, read from the first paragraph
\* whose text holds "| "
JournalAndPublisher(paragraphs) ==
    LET matching == SelectSeq(paragraphs,
                              LAMBDA text : Includes(text, <<"|", " ">>))
    IN  IF matching = <<>> THEN [journal |-> None, publisher |-> None]
        ELSE LET parts == Split(matching[1], "|")
                 leftSide == parts[1]
             IN  IF Len(parts) >= 2
                 THEN [journal |-> Some(Trim(parts[2])),
                       publisher |->
                           IF Includes(leftSide, <<"-">>)
                           THEN Some(Trim(Split(leftSide, "-")[2]))
                           ELSE None]
                 ELSE [journal |-> None, publisher |-> None]

\* lines 217-284: the record of one entry, or nothing when it is dropped
ExtractEntry(entry, theme, searchTerm) ==
    LET trimmed == Trim(entry.titleText)
        title == IF trimmed # <<>> THEN trimmed ELSE TextNoTitle
        detailUrl == IF entry.href = None THEN None
                     ELSE IF entry.href[1] = <<>> THEN None
                     ELSE IF StartsWith(entry.href[1], TextHttp)
                     THEN entry.href
                     ELSE Some(PortalOrigin \o entry.href[1])
        articleId == IF detailUrl = None THEN None
                     ELSE ExtractArticleIdFromUrl(detailUrl[1])
        opt == [article_id |-> articleId, detail_url |-> detailUrl,
                journal |-> JournalAndPublisher(entry.paragraphs).journal,
                publisher |-> JournalAndPublisher(entry.paragraphs).publisher,
                document_type |-> IF entry.documentType = None THEN None
                                  ELSE Some(Trim(entry.documentType[1]))]
        defined == {"title", "theme", "search_term", "authors",
                    "is_open_access", "is_peer_reviewed"}
                   \cup {k \in DOMAIN opt : opt[k] # None}
    IN  IF title # <<>> /\ articleId # None /\ articleId # Some(<<>>)
        THEN Some([keys |-> {"title", "article_id", "detail_url", "theme",
                             "search_term", "journal", "publisher", "authors",
                             "document_type", "is_open_access",
                             "is_peer_reviewed"},
                   vals |-> [k \in defined |->
                       CASE k = "title" -> title
                         [] k = "theme" -> theme
                         [] k = "search_term" -> searchTerm
                         [] k = "authors" -> ListingAuthors(entry.authorLinks, <<>>)
                         [] k = "is_open_access" -> entry.isOpenAccess
                         [] k = "is_peer_reviewed" -> entry.isPeerReviewed
                         [] OTHER -> opt[k][1]]])
        ELSE None

----------------------------------------------------------------------------
(* Detail pages: scrapeArticleDetail and processArticle                    *)

Digits == {"0","1","2","3","4","5","6","7","8","9"}

\* mutant: the trailing semicolons and blanks stay
StripTrailing_Keep(s) == s

\* s.replace(/[;\s]*$/, '')
RECURSIVE StripTrailing(_)
StripTrailing(s) ==
    IF s # <<>> /\ s[Len(s)] \in {";", " "}
    THEN StripTrailing(SubSeq(s, 1, Len(s) - 1)) ELSE s

\* s.replace(/<label>\s*/, ''): the first occurrence of the label and the
\* blanks after it are removed
RemoveLabel(s, label) ==
    LET starts == {i \in 1..(Len(s) - Len(label) + 1) :
                      SubSeq(s, i, i + Len(label) - 1) = label}
    IN  IF starts = {} THEN s
        ELSE LET i == CHOOSE j \in starts : \A m \in starts : j <= m
             IN  SubSeq(s, 1, i - 1)
                   \o TrimStart(SubSeq(s, i + Len(label), Len(s)))

\* s.match(/(\d{4})/): the first four consecutive digits
MatchYear(s) ==
    LET starts == {i \in 1..(Len(s) - 3) :
                      \A d \in 0..3 : s[i + d] \in Digits}
    IN  IF starts = {} THEN None
        ELSE LET i == CHOOSE j \in starts : \A m \in starts : j <= m
             IN  Some(SubSeq(s, i, i + 3))

\* s.match(/10\.\d{4,}/) succeeds
HasDoiPrefix(s) ==
    \E i \in 1..(Len(s) - 6) :
        /\ s[i] = "1" /\ s[i + 1] = "0" /\ s[i + 2] = "."
        /\ \A d \in 3..6 : s[i + d] \in Digits

\* s.match(/(10\.\d{4,}\/[^\s]+)/): the capture of the leftmost match
MatchDoi(s) ==
    LET digitsEnd(i) == i + 2 + Len(RunOf(s, i + 3, Digits))
        starts == {i \in 1..(Len(s) - 8) :
                      /\ s[i] = "1" /\ s[i + 1] = "0" /\ s[i + 2] = "."
                      /\ Len(RunOf(s, i + 3, Digits)) >= 4
                      /\ digitsEnd(i) + 2 <= Len(s)
                      /\ s[digitsEnd(i) + 1] = "/"
                      /\ s[digitsEnd(i) + 2] # " "}
    IN  IF starts = {} THEN None
        ELSE LET i == CHOOSE j \in starts : \A m \in starts : j <= m
                 e == digitsEnd(i) + 1
                 suffix == {j \in (e + 1)..Len(s) :
                               \A m \in (e + 1)..j : s[m] # " "}
             IN  Some(SubSeq(s, i, e + Cardinality(suffix)))

TextVolume == <<"V","o","l","u","m","e",":">>
TextIssue == <<"I","s","s","u","e",":">>
TextLinguagem == <<"L","i","n","g","u","a","g","e","m",":">>

\* The detail page the portal serves for the entry at position pos: the text
\* of each element the scraper reads ("" when the element is missing).
\* Positions 0 and 1 of every four have every element, position 2 has
\* none, and position 3 has the elements without content: blanks, a label
\* alone, a date without year, the start of a DOI.
DetailPage(pos) ==
    IF pos % 4 < 2
    THEN [metaAbstract |-> Some(<<"A","b","s">>),
          resumo |-> <<" ","R","e","s"," ">>,
          issn |-> <<" ","1","2","3","4","-","5","6","7","8"," ">>,
          instituicao |-> <<"D","e","t","P","u","b"," ",";"," ">>,
          ano |-> <<"(","2","0","2","1",")">>,
          volume |-> <<"V","o","l","u","m","e",":"," ","1","2",";">>,
          issue |-> <<"I","s","s","u","e",":"," ","3">>,
          language |-> <<"L","i","n","g","u","a","g","e","m",":"," ","E","N">>,
          doiText |-> <<"1","0",".","1","2","3","4","/","a",".">>
                        \o NumberToString(pos),
          acessoAberto |-> TRUE,
          revisadoPorPares |-> TRUE,
          authorLinks |-> << <<"D","a","u">> \o NumberToString(pos),
                             <<" ">> >>]
    ELSE IF pos % 4 = 2
    THEN [metaAbstract |-> None, resumo |-> <<>>, issn |-> <<>>,
          instituicao |-> <<>>, ano |-> <<>>, volume |-> <<>>,
          issue |-> <<>>, language |-> <<>>, doiText |-> <<>>,
          acessoAberto |-> FALSE, revisadoPorPares |-> FALSE,
          authorLinks |-> <<>>]
    ELSE [metaAbstract |-> Some(<<>>), resumo |-> <<" "," ">>, issn |-> <<" ">>,
          instituicao |-> <<" ",";"," ">>, ano |-> <<"s",".","d",".">>, volume |-> <<"V","o","l","u","m","e",":"," ",";">>,
          issue |-> <<"I","s","s","u","e",":"," ">>, language |-> <<"L","i","n","g","u","a","g","e","m",":"," "," ">>,
          doiText |-> <<" ","1","0",".","1","2","3","4"," ">>,
          acessoAberto |-> FALSE, revisadoPorPares |-> FALSE,
          authorLinks |-> << <<" ">> >>]

\* lines 349-355: the trimmed, non-empty author names
RECURSIVE DetailAuthors(_)
DetailAuthors(links) ==
    IF links = <<>> THEN <<>>
    ELSE LET authorText == Trim(Head(links))
         IN  (IF authorText # <<>> THEN <<authorText>> ELSE <<>>)
               \o DetailAuthors(Tail(links))

\* lines 300-358: the metadata scraped from a detail page that was fetched.
\* A text that ends up empty becomes undefined (x || undefined).
ScrapeArticleDetail(detailUrl, doc) ==
    LET orUndef(text) == IF text # <<>> THEN Some(text) ELSE None
        abstract == IF doc.metaAbstract # None /\ doc.metaAbstract # Some(<<>>)
                    THEN doc.metaAbstract
                    ELSE orUndef(Trim(doc.resumo))
        doiText == Trim(doc.doiText)
        doiSet == doiText # <<>> /\ HasDoiPrefix(doiText)
        authors == DetailAuthors(doc.authorLinks)
        opt == [abstract |-> abstract,
                issn |-> orUndef(Trim(doc.issn)),
                publisher |-> orUndef(Trim(StripTrailing(doc.instituicao))),
                publication_date |-> MatchYear(doc.ano),
                volume |-> orUndef(Trim(StripTrailing(
                               RemoveLabel(doc.volume, TextVolume)))),
                issue |-> orUndef(Trim(StripTrailing(
                               RemoveLabel(doc.issue, TextIssue)))),
                language |-> orUndef(Trim(StripTrailing(
                               RemoveLabel(doc.language, TextLinguagem)))),
                doi |-> IF doiSet THEN MatchDoi(doiText) ELSE None,
                authors |-> IF Len(authors) > 0 THEN Some(authors) ELSE None]
        defined == {"detail_url", "is_open_access", "is_peer_reviewed"}
                   \cup {k \in DOMAIN opt : opt[k] # None}
    IN  [keys |-> ({"detail_url", "abstract", "issn", "publisher",
                    "publication_date", "volume", "issue", "language",
                    "is_open_access", "is_peer_reviewed", "authors"}
                   \cup (IF doiSet THEN {"doi"} ELSE {})),
         vals |-> [k \in defined |->
             CASE k = "detail_url" -> detailUrl
               [] k = "is_open_access" -> doc.acessoAberto
               [] k = "is_peer_reviewed" -> doc.revisadoPorPares
               [] OTHER -> opt[k][1]]]

\* mutant: the catch block returns the metadata built so far
DetailsOnFailure_Metadata(detailUrl) ==
    [keys |-> {"detail_url"}, vals |-> [detail_url |-> detailUrl]]

\* line 361: what scrapeArticleDetail returns when the fetch or parse threw
DetailsOnFailure(detailUrl) == EmptyObject

\* lines 294: DETAIL_URL_PATTERN.replace('{}', articleId)
DetailUrlOf(articleId) == DETAIL_URL_PATTERN \o articleId

\* the text an identifier takes inside a template: an unset one reads
\* "undefined"
ArticleIdText(listing) ==
    IF Has(listing, "article_id") THEN listing.vals.article_id
    ELSE <<"u","n","d","e","f","i","n","e","d">>

\* mutant: records without an identifier are processed like the others
LacksArticleId_Never(listing) == FALSE

\* line 461: !listing.article_id
LacksArticleId(listing) ==
    ~Has(listing, "article_id") \/ listing.vals.article_id = <<>>

\* lines 467-480: the article built from a listing and its details
ProcessArticle(listing, details) ==
    LET fromListing ==
            [keys |-> {"title", "search_term", "article_id", "detail_url",
                       "journal", "publisher", "document_type"},
             vals |-> [k \in {j \in {"title", "search_term", "article_id",
                                     "detail_url", "journal", "publisher",
                                     "document_type"} :
                                 Has(listing, IF j = "search_term"
                                              THEN "theme" ELSE j)} |->
                          listing.vals[IF k = "search_term"
                                       THEN "theme" ELSE k]]]
        fallbacks ==
            [keys |-> {"authors", "is_open_access", "is_peer_reviewed"},
             vals |-> [authors |-> IF Has(details, "authors")
                                   THEN details.vals.authors ELSE <<>>,
                       is_open_access |-> Has(details, "is_open_access")
                                          /\ details.vals.is_open_access,
                       is_peer_reviewed |-> Has(details, "is_peer_reviewed")
                                            /\ details.vals.is_peer_reviewed]]
    IN  Spread(Spread(fromListing, details), fallbacks)

\* lines 597-608: the article search() builds from a listing alone
BasicArticle(listing) ==
    LET copied == {"title", "article_id", "detail_url", "journal",
                   "publisher", "document_type"}
        defined == {k \in copied : Has(listing, k)}
                   \cup {"authors", "search_term", "is_open_access",
                         "is_peer_reviewed"}
    IN  [keys |-> copied \cup {"authors", "search_term", "is_open_access",
                               "is_peer_reviewed"},
         vals |-> [k \in defined |->
             CASE k = "authors" -> IF Has(listing, "authors")
                                   THEN listing.vals.authors ELSE <<>>
               [] k = "search_term" -> listing.vals.theme
               [] k = "is_open_access" -> Has(listing, "is_open_access")
                                          /\ listing.vals.is_open_access
               [] k = "is_peer_reviewed" -> Has(listing, "is_peer_reviewed")
                                            /\ listing.vals.is_peer_reviewed
               [] OTHER -> listing.vals[k]]]

----------------------------------------------------------------------------
(* getListingsForTerm, fetchPage, search, searchPreview                    *)
(* A basic record is named in the state by the position of its entry in    *)
(* the portal's result list; BasicInfo gives the record itself.            *)

\* largest number of full listing pages the portal holds
MaxFullPages == 3

\* largest result-count bound, in pages
MaxResultPages == 2

\* largest page-count bound
MaxPagesOption == 2

\* largest worker limit passed explicitly
MaxWorkersBound == 2

\* largest number of records handed to fetchArticleDetails
MaxListings == 3

\* const workers = maxWorkers || 4
DefaultWorkers == 4

TotalChoices ==
    {3} \cup {ItemsPerPage * k + r : k \in 0..MaxFullPages, r \in {0, 15}}

ResultChoices ==
    {0} \cup {ItemsPerPage * k + r : k \in 0..MaxResultPages, r \in {1, 15, 30}}

NoIdChoices == {{}, {0, 31}}

\* maxWorkers || 4
Workers(w) == IF w # 0 THEN w ELSE DefaultWorkers

\* the positions of the entries the portal puts on listing page p
PageEntries(p) ==
    LET first == ItemsPerPage * (p - 1)
        last == Min(ItemsPerPage * p, totalItems) - 1
    IN  [i \in 1..(IF last >= first THEN last - first + 1 ELSE 0) |->
            first + i - 1]

\* the record extracted from the entry at a position, if it is kept
BasicInfo(pos) ==
    ExtractEntry(PortalEntry(pos, pos \notin noIdEntries), Query, Query)

\* lines 211-291: the records of one fetched listing page
ExtractBasicArticleInfo(p) ==
    SelectSeq(PageEntries(p), LAMBDA pos : BasicInfo(pos) # None)

\* the text of span.total: the count with dots between groups of 3 digits
RECURSIVE GroupDigits(_)
GroupDigits(d) ==
    IF Len(d) <= 3 THEN d
    ELSE GroupDigits(SubSeq(d, 1, Len(d) - 3)) \o <<".">>
           \o SubSeq(d, Len(d) - 2, Len(d))

TotalSpanText(n) == <<" ">> \o GroupDigits(NumberToString(n)) \o <<" ">>

\* s.replace(/\./g, '')
RemoveDots(s) == SelectSeq(s, LAMBDA c : c # ".")

DigitValue(c) ==
    CASE c = "0" -> 0 [] c = "1" -> 1 [] c = "2" -> 2 [] c = "3" -> 3
      [] c = "4" -> 4 [] c = "5" -> 5 [] c = "6" -> 6 [] c = "7" -> 7
      [] c = "8" -> 8 [] c = "9" -> 9

\* parseInt of a text that starts with a digit: its leading digits
RECURSIVE DigitsValue(_, _)
DigitsValue(d, acc) ==
    IF d = <<>> THEN acc
    ELSE DigitsValue(Tail(d), 10 * acc + DigitValue(Head(d)))

ParseInt(s) == DigitsValue(RunOf(s, 1, Digits), 0)

\* lines 197-209
GetTotalPages ==
    IF spanPresent /\ Trim(TotalSpanText(totalItems)) # <<>>
    THEN CeilDiv(ParseInt(RemoveDots(Trim(TotalSpanText(totalItems)))),
                 ItemsPerPage)
    ELSE 0

\* mutant: the result-count bound does not limit the pages
ClampTotalPages_NoResultBound(total, maxPages, maxResults) ==
    IF maxPages > 0 THEN Min(total, maxPages) ELSE total

\* mutant: the page-count bound does not limit the pages
ClampTotalPages_NoPageBound(total, maxPages, maxResults) ==
    IF maxResults > 0 THEN Min(total, CeilDiv(maxResults, ItemsPerPage))
    ELSE total

\* lines 379-389: the page-count and result-count bounds clamp totalPages
ClampTotalPages(total, maxPages, maxResults) ==
    LET byPages == IF maxPages # 0 /\ maxPages > 0
                   THEN Min(total, maxPages) ELSE total
    IN  IF maxResults # 0 /\ maxResults > 0
        THEN Min(byPages, CeilDiv(maxResults, ItemsPerPage))
        ELSE byPages

\* lines 396, 416: options.max_results && listings.length >= options.max_results
EnoughResults(n, maxResults) == maxResults # 0 /\ n >= maxResults

\* mutant: a batch ends only at the last page
BatchFull_LastPageOnly(n, workers, pg, total) == pg = total

\* line 410: pagePromises.length >= workers || page === totalPages
BatchFull(n, workers, pg, total) == n >= workers \/ pg = total

\* mutant: a batch with an empty page contributes nothing
RECURSIVE BatchListings_AllOrNothing(_, _)
BatchListings_AllOrNothing(promises, results) ==
    IF \E i \in 1..Len(promises) : results[promises[i]] = <<>>
    THEN <<>>
    ELSE IF promises = <<>> THEN <<>>
    ELSE results[Head(promises)]
           \o BatchListings_AllOrNothing(Tail(promises), results)

\* line 412: batchResults.forEach(pageResults => listings.push(...pageResults))
RECURSIVE BatchListings(_, _)
BatchListings(promises, results) ==
    IF promises = <<>> THEN <<>>
    ELSE results[Head(promises)] \o BatchListings(Tail(promises), results)

TextPreviewFailed ==
    <<"P","r","e","v","i","e","w"," ","s","e","a","r","c","h"," ","f","a",
      "i","l","e","d",":"," ">>

\* lines 70, 75, 52 and 78-79: the messages of the errors the catch block
\* can be entered with: a 520 answer past the retries, another status that
\* is not ok, fetch() rejecting, and a body that cannot be read
AttemptErrors(n) ==
    {MessagePersistent520(n, Answer(name).statusText) :
         name \in {a \in ProxyAnswers :
                      /\ Answer(a).kind = "response"
                      /\ Answer(a).status = 520}}
      \cup {MessageApiError(Answer(name).status, Answer(name).statusText) :
                name \in {a \in ProxyAnswers :
                             /\ Answer(a).kind = "response"
                             /\ Answer(a).status # 520
                             /\ ~ResponseOk(Answer(a).status)}}
      \cup {Answer(name).message :
                name \in {a \in ProxyAnswers : Answer(a).kind = "throw"}}
      \cup {BodyErrorMessage(failure) : failure \in BodyFailures}

\* line 85: the errors _fetchWithZyte (default maxRetries) throws for a url
\* when a fetch fails for good: the error of its last attempt, wrapped
FetchErrorMessages(url) ==
    {MessageFailedFor(url, message) :
         message \in AttemptErrors(DefaultMaxRetries)}

\* mutant: a failed preview fetch yields an empty preview
PreviewFailure_Empty(message) ==
    [kind |-> "value", total_found |-> 0, sample_titles |-> <<>>]

\* line 686: throw new Error(`Preview search failed: ${error.message}`)
PreviewFailure(message) ==
    [kind |-> "error", message |-> TextPreviewFailed \o message]

\* lines 664-665: the total the preview reads from page 1
PreviewTotalFound ==
    IF spanPresent
    THEN ParseInt(RemoveDots(Trim(TotalSpanText(totalItems))))
    ELSE 0

\* lines 668-674: the non-empty trimmed titles of the first 5 entries
SampleTitles ==
    LET shown == SliceTo(PageEntries(1), 5)
        titles == [i \in 1..Len(shown) |->
                      Trim(PortalEntry(shown[i], shown[i] \notin noIdEntries)
                             .titleText)]
    IN  SelectSeq(titles, LAMBDA t : t # <<>>)

\* the most records search() can hand to fetchArticleDetails
DetailLoad ==
    IF max_results > 0 THEN Min(max_results, totalItems) ELSE totalItems

InitSearch ==
    /\ op \in {"search", "searchPreview"}
    /\ totalItems \in TotalChoices
    /\ spanPresent \in BOOLEAN
    /\ noIdEntries \in NoIdChoices
    /\ max_results \in (IF op = "search" THEN ResultChoices ELSE {0})
    /\ max_pages \in (IF op = "search" THEN 0..MaxPagesOption ELSE {0})
    /\ maxWorkers \in (IF op = "search" THEN 0..MaxWorkersBound ELSE {0})
    /\ full_details \in (IF op = "search" /\ DetailLoad <= MaxListings
                         THEN BOOLEAN ELSE {FALSE})
    /\ include_metrics \in (IF full_details THEN BOOLEAN ELSE {FALSE})
    /\ spc = "start"
    /\ totalPages = 0
    /\ page = 0
    /\ pagePromises = <<>>
    /\ inFlight = {}
    /\ pageResult = <<>>
    /\ fetched = <<>>
    /\ failedPages = {}
    /\ listings = <<>>
    /\ returned = <<>>
    /\ sresult = NoResult

searchInputs == <<op, totalItems, spanPresent, noIdEntries, max_results,
                  max_pages, maxWorkers, full_details, include_metrics>>

\* lines 372-375: the url of page 1 is built and the fetch issued
SearchIssuePage1 ==
    /\ op = "search" /\ spc = "start"
    /\ fetched' = <<1>>
    /\ inFlight' = {1}
    /\ spc' = "page1"
    /\ UNCHANGED <<searchInputs, totalPages, page, pagePromises, pageResult,
                   failedPages, listings, returned, sresult>>
    /\ UNCHANGED <<fetchVars, detailVars, metricVars, exportVars, getVars>>

\* lines 375-399 and 422-423: page 1 was fetched
SearchPage1Ok ==
    /\ op = "search" /\ spc = "page1"
    /\ inFlight' = {}
    /\ LET first == ExtractBasicArticleInfo(1)
           total == ClampTotalPages(GetTotalPages, max_pages, max_results)
       IN  /\ pageResult' = (1 :> first)
           /\ totalPages' = total
           /\ listings' = first
           /\ IF EnoughResults(Len(first), max_results)
              THEN /\ returned' = SliceTo(first, max_results)
                   /\ spc' = "listed"
                   /\ page' = page
              ELSE IF total > 1
              THEN /\ returned' = returned
                   /\ spc' = "loop"
                   /\ page' = 2
              ELSE /\ returned' = first
                   /\ spc' = "listed"
                   /\ page' = page
    /\ UNCHANGED <<searchInputs, pagePromises, fetched, failedPages, sresult>>
    /\ UNCHANGED <<fetchVars, detailVars, metricVars, exportVars, getVars>>

\* lines 375, 424-427: the fetch of page 1 threw
SearchPage1Fail ==
    /\ op = "search" /\ spc = "page1"
    /\ inFlight' = {}
    /\ failedPages' = {1}
    /\ returned' = <<>>
    /\ spc' = "listed"
    /\ UNCHANGED <<searchInputs, totalPages, page, pagePromises, pageResult,
                   fetched, listings, sresult>>
    /\ UNCHANGED <<fetchVars, detailVars, metricVars, exportVars, getVars>>

\* lines 405-410: fetchPage(page) is called and its promise pushed
LaunchPage ==
    /\ spc = "loop"
    /\ pagePromises' = Append(pagePromises, page)
    /\ inFlight' = inFlight \cup {page}
    /\ fetched' = Append(fetched, page)
    /\ IF BatchFull(Len(pagePromises) + 1, Workers(maxWorkers), page,
                    totalPages)
       THEN spc' = "await" /\ page' = page
       ELSE spc' = "loop" /\ page' = page + 1
    /\ UNCHANGED <<searchInputs, totalPages, pageResult, failedPages,
                   listings, returned, sresult>>
    /\ UNCHANGED <<fetchVars, detailVars, metricVars, exportVars, getVars>>

\* lines 436-444: a pending fetchPage got its page
PageOk ==
    /\ spc = "await"
    /\ \E p \in inFlight :
         /\ inFlight' = inFlight \ {p}
         /\ pageResult' = (p :> ExtractBasicArticleInfo(p)) @@ pageResult
    /\ UNCHANGED <<searchInputs, spc, totalPages, page, pagePromises, fetched,
                   failedPages, listings, returned, sresult>>
    /\ UNCHANGED <<fetchVars, detailVars, metricVars, exportVars, getVars>>

\* lines 445-448: the fetch of a pending fetchPage threw
PageFail ==
    /\ spc = "await"
    /\ \E p \in inFlight :
         /\ inFlight' = inFlight \ {p}
         /\ pageResult' = (p :> <<>>) @@ pageResult
         /\ failedPages' = failedPages \cup {p}
    /\ UNCHANGED <<searchInputs, spc, totalPages, page, pagePromises, fetched,
                   listings, returned, sresult>>
    /\ UNCHANGED <<fetchVars, detailVars, metricVars, exportVars, getVars>>

\* lines 411-423: Promise.all resolved; append, test the bound, go on
AwaitAll ==
    /\ spc = "await" /\ inFlight = {}
    /\ LET all == listings \o BatchListings(pagePromises, pageResult)
       IN  /\ listings' = all
           /\ pagePromises' = <<>>
           /\ IF EnoughResults(Len(all), max_results)
              THEN /\ returned' = SliceTo(all, max_results)
                   /\ spc' = "listed"
                   /\ page' = page
              ELSE IF page + 1 <= totalPages
              THEN /\ returned' = returned
                   /\ spc' = "loop"
                   /\ page' = page + 1
              ELSE /\ returned' = all
                   /\ spc' = "listed"
                   /\ page' = page + 1
    /\ UNCHANGED <<searchInputs, totalPages, inFlight, pageResult, fetched,
                   failedPages, sresult>>
    /\ UNCHANGED <<fetchVars, detailVars, metricVars, exportVars, getVars>>

\* lines 585-588
LimitedListings ==
    IF max_results # 0 /\ max_results > 0
    THEN SliceTo(returned, max_results) ELSE returned

\* lines 597-608: the article search() builds from a record alone
ArticleOf(rec) == BasicArticle(BasicInfo(rec.entry)[1])

\* lines 595-617: search() without full_details
SearchBasic ==
    /\ op = "search" /\ spc = "listed" /\ ~full_details
    /\ sresult' = [kind |-> "value",
                   articles |-> [i \in 1..Len(LimitedListings) |->
                                    [entry |-> LimitedListings[i],
                                     detail |-> "basic"]],
                   total_found |-> Len(returned),
                   pages_processed |-> max_pages,
                   query |-> Query]
    /\ spc' = "done"
    /\ UNCHANGED <<searchInputs, totalPages, page, pagePromises, inFlight,
                   pageResult, fetched, failedPages, listings, returned>>
    /\ UNCHANGED <<fetchVars, detailVars, metricVars, exportVars, getVars>>

\* lines 585-594: search() with full_details calls fetchArticleDetails on
\* the limited records, with its options and its maxWorkers
SearchDetailsStart ==
    /\ op = "search" /\ spc = "listed" /\ full_details
    /\ articleListings' = [i \in 1..Len(LimitedListings) |->
                              [entry |-> LimitedListings[i], id |-> "set"]]
    /\ workersArg' = maxWorkers
    /\ dIncludeMetrics' = include_metrics
    /\ dpc' = "loop"
    /\ spc' = "details"
    /\ UNCHANGED <<searchInputs, totalPages, page, pagePromises, inFlight,
                   pageResult, fetched, failedPages, listings, returned,
                   sresult>>
    /\ UNCHANGED <<batchStart, dInFlight, dFetches, dFailed, batchResults,
                   articles>>
    /\ UNCHANGED <<fetchVars, metricVars, exportVars, getVars>>

\* lines 594, 612-617: fetchArticleDetails returned; search() returns
SearchFullDetails ==
    /\ op = "search" /\ spc = "details" /\ dpc = "done"
    /\ sresult' = [kind |-> "value",
                   articles |-> articles,
                   total_found |-> Len(returned),
                   pages_processed |-> max_pages,
                   query |-> Query]
    /\ spc' = "done"
    /\ UNCHANGED <<searchInputs, totalPages, page, pagePromises, inFlight,
                   pageResult, fetched, failedPages, listings, returned>>
    /\ UNCHANGED <<fetchVars, detailVars, metricVars, exportVars, getVars>>

\* lines 655-660: the url of the preview is built and the fetch issued
PreviewIssue ==
    /\ op = "searchPreview" /\ spc = "start"
    /\ fetched' = <<1>>
    /\ inFlight' = {1}
    /\ spc' = "preview"
    /\ UNCHANGED <<searchInputs, totalPages, page, pagePromises, pageResult,
                   failedPages, listings, returned, sresult>>
    /\ UNCHANGED <<fetchVars, detailVars, metricVars, exportVars, getVars>>

\* lines 660-684: the preview page was fetched
PreviewOk ==
    /\ op = "searchPreview" /\ spc = "preview"
    /\ inFlight' = {}
    /\ sresult' = [kind |-> "value",
                   query |-> Query,
                   total_found |-> PreviewTotalFound,
                   sample_titles |-> SampleTitles,
                   filters_applied |-> None]
    /\ spc' = "done"
    /\ UNCHANGED <<searchInputs, totalPages, page, pagePromises, pageResult,
                   fetched, failedPages, listings, returned>>
    /\ UNCHANGED <<fetchVars, detailVars, metricVars, exportVars, getVars>>

\* lines 660, 685-687: the preview fetch threw; fresult keeps the error of
\* _fetchWithZyte that the catch block wraps
PreviewFail ==
    /\ op = "searchPreview" /\ spc = "preview"
    /\ inFlight' = {}
    /\ failedPages' = {1}
    /\ \E message \in FetchErrorMessages(PreviewUrl) :
         /\ fresult' = [kind |-> "error", message |-> message]
         /\ sresult' = PreviewFailure(message)
    /\ spc' = "done"
    /\ UNCHANGED <<searchInputs, totalPages, page, pagePromises, pageResult,
                   fetched, listings, returned>>
    /\ UNCHANGED <<zyteApiKey, maxRetries, attempt, fpc, history, sleeps>>
    /\ UNCHANGED <<detailVars, metricVars, exportVars, getVars>>

----------------------------------------------------------------------------
(* fetchArticleDetails: batches of processArticle                          *)

\* largest worker limit passed explicitly to fetchArticleDetails
MaxDetailWorkers == 2

\* article_id?: string -- a record's identifier is set, unset or empty
IdKinds == {"set", "unset", "empty"}

\* the record handed in for a position, given the kind of its identifier
ListingInput(pos, kind) ==
    LET full == ExtractEntry(PortalEntry(pos, TRUE), Query, Query)[1]
    IN  CASE kind = "set" -> full
          [] kind = "unset" ->
                [keys |-> full.keys,
                 vals |-> [k \in (DOMAIN full.vals) \ {"article_id"} |->
                              full.vals[k]]]
          [] kind = "empty" ->
                [keys |-> full.keys,
                 vals |-> [k \in DOMAIN full.vals |->
                              IF k = "article_id" THEN <<>>
                              ELSE full.vals[k]]]

\* the record at index i of articleListings
ListingAt(i) == ListingInput(articleListings[i].entry, articleListings[i].id)

\* mutant: the slice takes one record more
BatchIndices_OneMore(start, workers, n) ==
    (start + 1)..Min(start + workers + 1, n)

\* line 492: articleListings.slice(i, i + workers), as indices
BatchIndices(start, workers, n) == (start + 1)..Min(start + workers, n)

\* mutant: the results of a batch are kept last record first
RECURSIVE CollectBatch_Reversed(_, _, _)
CollectBatch_Reversed(results, from, to) ==
    IF from > to THEN <<>>
    ELSE CollectBatch_Reversed(results, from + 1, to)
           \o (IF results[from] = None THEN <<>> ELSE <<results[from][1]>>)

\* lines 496-498: the non-null results of a batch, in the order of the batch
RECURSIVE CollectBatch(_, _, _)
CollectBatch(results, from, to) ==
    IF from > to THEN <<>>
    ELSE (IF results[from] = None THEN <<>> ELSE <<results[from][1]>>)
           \o CollectBatch(results, from + 1, to)

InitDetail ==
    /\ \E n \in 0..MaxListings, first \in {0, 1} :
         \E kinds \in [1..n -> IdKinds] :
           articleListings = [i \in 1..n |->
                                 [entry |-> first + i - 1, id |-> kinds[i]]]
    /\ workersArg \in 0..MaxDetailWorkers
    /\ dIncludeMetrics \in BOOLEAN
    /\ dpc = "loop"
    /\ batchStart = 0
    /\ dInFlight = {}
    /\ dFetches = <<>>
    /\ dFailed = {}
    /\ batchResults = <<>>
    /\ articles = <<>>

detailInputs == <<articleListings, workersArg, dIncludeMetrics>>

\* lines 491-494: the next batch is mapped through processArticle; a record
\* without identifier resolves to null at once, the others issue their fetch
DetailStartBatch ==
    /\ dpc = "loop" /\ batchStart < Len(articleListings)
    /\ LET batch == BatchIndices(batchStart, Workers(workersArg),
                                 Len(articleListings))
           fetching == {j \in batch : ~LacksArticleId(ListingAt(j))}
       IN  /\ dInFlight' = fetching
           /\ dFetches' = dFetches \o
                  SelectSeq([j \in 1..Len(articleListings) |-> j],
                            LAMBDA j : j \in fetching)
           /\ batchResults' = [j \in batch \ fetching |-> None]
    /\ dpc' = "await"
    /\ UNCHANGED <<detailInputs, batchStart, dFailed, articles>>
    /\ UNCHANGED <<fetchVars, searchVars, metricVars, exportVars, getVars>>

\* lines 465-483, 293-360: the detail page of a pending record was fetched
DetailOk ==
    /\ dpc = "await"
    /\ \E j \in dInFlight :
         LET listing == ListingAt(j)
             url == DetailUrlOf(ArticleIdText(listing))
         IN  /\ dInFlight' = dInFlight \ {j}
             /\ batchResults' =
                    (j :> Some(ProcessArticle(listing,
                         ScrapeArticleDetail(url,
                             DetailPage(articleListings[j].entry)))))
                    @@ batchResults
    /\ UNCHANGED <<detailInputs, dpc, batchStart, dFetches, dFailed, articles>>
    /\ UNCHANGED <<fetchVars, searchVars, metricVars, exportVars, getVars>>

\* lines 465-483, 358-362: the detail fetch of a pending record threw
DetailFail ==
    /\ dpc = "await"
    /\ \E j \in dInFlight :
         LET listing == ListingAt(j)
             url == DetailUrlOf(ArticleIdText(listing))
         IN  /\ dInFlight' = dInFlight \ {j}
             /\ dFailed' = dFailed \cup {j}
             /\ batchResults' =
                    (j :> Some(ProcessArticle(listing, DetailsOnFailure(url))))
                    @@ batchResults
    /\ UNCHANGED <<detailInputs, dpc, batchStart, dFetches, articles>>
    /\ UNCHANGED <<fetchVars, searchVars, metricVars, exportVars, getVars>>

\* lines 494-499: Promise.all resolved; keep the non-null results
DetailBatchDone ==
    /\ dpc = "await" /\ dInFlight = {}
    /\ articles' = articles \o
           CollectBatch(batchResults, batchStart + 1,
                        Min(batchStart + Workers(workersArg),
                            Len(articleListings)))
    /\ batchStart' = batchStart + Workers(workersArg)
    /\ batchResults' = <<>>
    /\ dpc' = "loop"
    /\ UNCHANGED <<detailInputs, dInFlight, dFetches, dFailed>>
    /\ UNCHANGED <<fetchVars, searchVars, metricVars, exportVars, getVars>>

\* lines 502-503: include_metrics is set; enrichWithMetrics is called on
\* the articles
DetailEnrichStart ==
    /\ dpc = "loop" /\ batchStart >= Len(articleListings)
    /\ dIncludeMetrics
    /\ mArticles' = [i \in 1..Len(articles) |->
                        [issn |-> "article", doi |-> "article"]]
    /\ mpc' = "start"
    /\ mMetrics' = <<>>
    /\ mNext' = 0
    /\ mResults' = <<>>
    /\ mOutcomes' = <<>>
    /\ mRequests' = <<>>
    /\ mInFlight' = {}
    /\ mSleeps' = <<>>
    /\ dpc' = "metrics"
    /\ UNCHANGED <<detailInputs, batchStart, dInFlight, dFetches, dFailed,
                   batchResults, articles>>
    /\ UNCHANGED <<fetchVars, searchVars, exportVars, getVars>>
    /\ UNCHANGED workVars

\* article.metrics = ... : the article with the metrics it was given
WithMetrics(article, metrics) ==
    [keys |-> article.keys \cup {"metrics"},
     vals |-> [k \in (DOMAIN article.vals) \cup {"metrics"} |->
                  IF k = "metrics" THEN metrics ELSE article.vals[k]]]

\* lines 491, 502-506: no record is left and the metrics, if asked for, are
\* set; the articles are returned
DetailReturn ==
    /\ \/ /\ dpc = "loop" /\ batchStart >= Len(articleListings)
          /\ ~dIncludeMetrics
          /\ articles' = articles
       \/ /\ dpc = "metrics" /\ mpc = "done"
          /\ articles' = [i \in 1..Len(articles) |->
                              IF i \in DOMAIN mMetrics
                              THEN WithMetrics(articles[i], mMetrics[i])
                              ELSE articles[i]]
    /\ dpc' = "done"
    /\ UNCHANGED <<detailInputs, batchStart, dInFlight, dFetches, dFailed,
                   batchResults>>
    /\ UNCHANGED <<fetchVars, searchVars, metricVars, exportVars, getVars>>

----------------------------------------------------------------------------
(* enrichWithMetrics: the Qualis pass, then the OpenAlex pass              *)

\* largest number of articles whose ISSN and DOI vary freely
MaxFreeArticles == 2

\* const BATCH_SIZE = 50
BATCH_SIZE == 50

\* new Date().getFullYear()
CurrentYear == 2026

\* the ISSN and the DOI of an article handed in alone; the articles of a
\* call of fetchArticleDetails are of kind "article" and carry their own
IssnKinds == {"none", "listed", "bare", "unlisted"}
DoiKinds == {"none", "indexed", "unindexed"}

\* the lengths of the run of articles that precedes the free ones; each has
\* a listed ISSN and an indexed DOI
PaddingChoices == {0, BATCH_SIZE - 1, BATCH_SIZE}

\* article.issn of the article at index i
IssnOf(i) ==
    LET d == <<DigitChar(i % 10)>>
        k == mArticles[i].issn
    IN  CASE k = "none" -> None
          [] k = "listed" -> Some(<<"0","0","0","1","-","0","0","0">> \o d)
          [] k = "bare" -> Some(<<"0","0","0","1","0","0","0">> \o d)
          [] k = "unlisted" -> Some(<<"9","9","9","9","-","0","0","0">> \o d)
          [] k = "article" ->
                IF Has(articles[i], "issn") THEN Some(articles[i].vals.issn)
                ELSE None

\* the DOI number n of the test data
DoiText(n) == <<"1","0",".","1","/","x">> \o NumberToString(n)

\* article.doi of the article at index i
DoiOf(i) ==
    CASE mArticles[i].doi = "none" -> None
      [] mArticles[i].doi = "article" ->
            IF Has(articles[i], "doi") THEN Some(articles[i].vals.doi)
            ELSE None
      [] OTHER -> Some(DoiText(i))

\* the citation service holds a work for the DOI of article i
DoiIndexed(i) == mArticles[i].doi \in {"indexed", "article"}

\* the rows of the qualis table
QualisRows ==
    {[issn |-> <<"0","0","0","1","-","0","0","0">> \o <<DigitChar(d)>>,
      area |-> <<"E","D","U">>,
      classification |-> IF d % 2 = 0 THEN <<"A","1">> ELSE <<"B","2">>] :
        d \in 0..9}
      \cup {[issn |-> <<"1","2","3","4","-","5","6","7","8">>,
              area |-> <<"E","D","U">>,
              classification |-> <<"A","2">>]}

\* issn.replace(/[^0-9X]/gi, '')
CleanISSN(issn) ==
    SelectSeq(issn, LAMBDA c : c \in Digits \cup {"X", "x"})

\* qualis-service.ts lines 70-79
FormatISSN(issn) ==
    LET clean == CleanISSN(issn)
    IN  IF Len(clean) = 8 /\ ~Includes(issn, <<"-">>)
        THEN SubSeq(clean, 1, 4) \o <<"-">> \o SubSeq(clean, 5, 8)
        ELSE issn

\* s.replace(sub, ''): the first occurrence of sub is removed
RemoveFirst(s, sub) ==
    LET starts == {i \in 1..(Len(s) - Len(sub) + 1) :
                      SubSeq(s, i, i + Len(sub) - 1) = sub}
    IN  IF starts = {} THEN s
        ELSE LET i == CHOOSE j \in starts : \A m \in starts : j <= m
             IN  SubSeq(s, 1, i - 1) \o SubSeq(s, i + Len(sub), Len(s))

\* qualis-service.ts lines 52-68: the row of an ISSN, if the table has one
GetQualisByISSN(issn) ==
    LET found == {r \in QualisRows :
                     \/ r.issn = FormatISSN(issn)
                     \/ r.issn = RemoveFirst(issn, <<"-">>)}
    IN  IF found = {} THEN None ELSE Some(CHOOSE r \in found : TRUE)

\* scraper.ts lines 519-525: the metrics an article gets when it has none
DefaultMetrics ==
    [keys |-> {"cited_by_count", "publication_year", "is_open_access"},
     vals |-> [cited_by_count |-> 0, publication_year |-> CurrentYear,
               is_open_access |-> FALSE]]

\* scraper.ts lines 526-529
QualisOf(row) == [classification |-> row.classification, area |-> row.area]

\* scraper.ts lines 515-533: the metrics of article i after the Qualis pass
QualityPass(i) ==
    IF IssnOf(i) # None /\ IssnOf(i) # Some(<<>>)
       /\ GetQualisByISSN(IssnOf(i)[1]) # None
    THEN Some([keys |-> DefaultMetrics.keys \cup {"qualis"},
               vals |-> [k \in DefaultMetrics.keys \cup {"qualis"} |->
                            IF k = "qualis"
                            THEN QualisOf(GetQualisByISSN(IssnOf(i)[1])[1])
                            ELSE DefaultMetrics.vals[k]]])
    ELSE None

\* scraper.ts lines 536, 541: the indices of the articles with a DOI, in order
ArticlesWithDOI ==
    SelectSeq([i \in 1..Len(mArticles) |-> i],
              LAMBDA i : DoiOf(i) # None /\ DoiOf(i) # Some(<<>>))

TextDoiOrg ==
    <<"h","t","t","p","s",":","/","/","d","o","i",".","o","r","g","/">>

\* the work OpenAlex holds for the DOI `doi`, the i-th of the test data
WorkFor(i, doi) ==
    [doi |-> TextDoiOrg \o doi,
     cited_by_count |-> IF i % 3 = 0 THEN None ELSE Some(i),
     fwci |-> IF i % 2 = 0 THEN None ELSE Some(2),
     publication_year |-> IF i % 4 = 0 THEN None ELSE Some(2020),
     is_oa |-> (i % 2 = 1),
     oa_date |-> IF i % 2 = 1 THEN Some(<<"2","0","2","0">>) ELSE None]

\* the work OpenAlex holds for the DOI of article i
WorkOf(i) == WorkFor(i, DoiOf(i)[1])

\* openalex-service.ts lines 100-119
ParseOpenAlexWork(work) ==
    LET opt == [fwci |-> work.fwci, open_access_oa_date |-> work.oa_date]
    IN  [keys |-> {"cited_by_count", "fwci", "publication_year",
                   "is_open_access", "open_access_oa_date"},
         vals |-> [k \in {"cited_by_count", "publication_year",
                          "is_open_access"}
                         \cup {f \in DOMAIN opt : opt[f] # None} |->
             CASE k = "cited_by_count" ->
                      IF work.cited_by_count # None
                      THEN work.cited_by_count[1] ELSE 0
               [] k = "publication_year" ->
                      IF work.publication_year # None
                      THEN work.publication_year[1] ELSE CurrentYear
               [] k = "is_open_access" -> work.is_oa
               [] OTHER -> opt[k][1]]]

\* how a citation request ends: answered and parsed, answered with a
\* status that is not ok, rejected, or answered with a body that is not JSON
BatchOutcomes == {"ok", "notOk", "throws", "badJson"}

\* openalex-service.ts lines 57-93: the map processBatch returns for the
\* articles whose DOIs are in the batch
ProcessBatch(batch, outcome) ==
    IF outcome = "ok"
    THEN LET works == {WorkOf(batch[n]) : n \in
                          {m \in 1..Len(batch) :
                              DoiIndexed(batch[m])}}
         IN  [d \in {RemoveFirst(w.doi, TextDoiOrg) : w \in works} |->
                 ParseOpenAlexWork(CHOOSE w \in works :
                     RemoveFirst(w.doi, TextDoiOrg) = d)]
    ELSE <<>>

\* mutant: the results of a batch replace those of the batches before
MergeResults_Replace(results, batchMap) == batchMap

\* openalex-service.ts lines 43-46
MergeResults(results, batchMap) == batchMap @@ results

\* mutant: the merge keeps the citation metrics alone
MergeMetrics_DropQualis(openAlexMetrics, metrics) == openAlexMetrics

\* scraper.ts lines 557-561: { ...openAlexMetrics, qualis: metrics.qualis }
MergeMetrics(openAlexMetrics, metrics) ==
    Spread(openAlexMetrics,
           [keys |-> {"qualis"},
            vals |-> [k \in {"qualis"} \cap DOMAIN metrics.vals |->
                         metrics.vals[k]]])

\* scraper.ts lines 548-565: the metrics of article i after the OpenAlex pass
CitationPass(i, results) ==
    IF DoiOf(i) # None /\ DoiOf(i) # Some(<<>>)
       /\ DoiOf(i)[1] \in DOMAIN results
    THEN IF i \notin DOMAIN mMetrics
         THEN Some(results[DoiOf(i)[1]])
         ELSE Some(MergeMetrics(results[DoiOf(i)[1]], mMetrics[i]))
    ELSE IF i \in DOMAIN mMetrics THEN Some(mMetrics[i]) ELSE None

IdleWork ==
    /\ wpc = "idle"
    /\ wDoi = <<>>
    /\ wRequests = <<>>
    /\ wInFlight = {}
    /\ wAnswer = "none"
    /\ wReturned = NoResult

IdleEnrich ==
    /\ mArticles = <<>>
    /\ mpc = "idle"
    /\ mMetrics = <<>>
    /\ mNext = 0
    /\ mResults = <<>>
    /\ mOutcomes = <<>>
    /\ mRequests = <<>>
    /\ mInFlight = {}
    /\ mSleeps = <<>>

IdleMetrics == IdleEnrich /\ IdleWork

InitMetrics ==
    /\ \E pad \in PaddingChoices, n \in 0..MaxFreeArticles :
         \E free \in [1..n -> [issn : IssnKinds, doi : DoiKinds]] :
           mArticles = [i \in 1..(pad + n) |->
                           IF i <= pad
                           THEN [issn |-> "listed", doi |-> "indexed"]
                           ELSE free[i - pad]]
    /\ mpc = "start"
    /\ mMetrics = <<>>
    /\ mNext = 0
    /\ mResults = <<>>
    /\ mOutcomes = <<>>
    /\ mRequests = <<>>
    /\ mInFlight = {}
    /\ mSleeps = <<>>
    /\ IdleWork

\* scraper.ts lines 512-539: the Qualis pass, and the return when no article
\* has a DOI
EnrichQuality ==
    /\ mpc = "start"
    /\ mMetrics' = [i \in {j \in 1..Len(mArticles) : QualityPass(j) # None} |->
                       QualityPass(i)[1]]
    /\ mpc' = IF Len(ArticlesWithDOI) = 0 THEN "done" ELSE "batches"
    /\ UNCHANGED <<mArticles, mNext, mResults, mOutcomes, mRequests,
                   mInFlight, mSleeps>>
    /\ UNCHANGED <<fetchVars, searchVars, detailVars, exportVars, getVars>>
    /\ UNCHANGED workVars

\* const delay between batches, in ms
BatchDelayMs == 100

\* mutant: the delay is taken after every batch
DelayNeeded_Always(next, n) == TRUE

\* openalex-service.ts line 48: i + BATCH_SIZE < dois.length
DelayNeeded(next, n) == next + BATCH_SIZE < n

\* openalex-service.ts lines 38-40 and 62-66: the next slice of DOIs is
\* sent to the citation service
CitationRequest ==
    /\ mpc = "batches" /\ mNext < Len(ArticlesWithDOI)
    /\ mRequests' = Append(mRequests,
           SubSeq(ArticlesWithDOI, mNext + 1,
                  Min(mNext + BATCH_SIZE, Len(ArticlesWithDOI))))
    /\ mInFlight' = mInFlight \cup {Len(mRequests) + 1}
    /\ mpc' = "fetching"
    /\ UNCHANGED <<mArticles, mMetrics, mNext, mResults, mOutcomes, mSleeps>>
    /\ UNCHANGED <<fetchVars, searchVars, detailVars, exportVars, getVars>>
    /\ UNCHANGED workVars

\* openalex-service.ts lines 40-50 and 93: processBatch returned its map;
\* the map is merged, and the delay timer is set unless the batch is the last
AfterBatch(outcome) ==
    /\ mResults' = MergeResults(mResults,
           ProcessBatch(mRequests[Len(mRequests)], outcome))
    /\ mOutcomes' = Append(mOutcomes, outcome)
    /\ mInFlight' = mInFlight \ {Len(mRequests)}
    /\ IF DelayNeeded(mNext, Len(ArticlesWithDOI))
       THEN /\ mSleeps' = Append(mSleeps, [after |-> Len(mRequests),
                                          ms |-> BatchDelayMs])
            /\ mNext' = mNext
            /\ mpc' = "delay"
       ELSE /\ mSleeps' = mSleeps
            /\ mNext' = mNext + BATCH_SIZE
            /\ mpc' = "batches"
    /\ UNCHANGED <<mArticles, mMetrics, mRequests>>
    /\ UNCHANGED <<fetchVars, searchVars, detailVars, exportVars, getVars>>
    /\ UNCHANGED workVars

\* openalex-service.ts lines 68, 89-93: fetch rejected; the batch is empty
CitationThrows ==
    /\ mpc = "fetching"
    /\ AfterBatch("throws")

\* openalex-service.ts lines 68-75: the response arrived with an ok status;
\* its body is awaited
CitationHeadOk ==
    /\ mpc = "fetching"
    /\ mpc' = "body"
    /\ UNCHANGED <<mArticles, mMetrics, mNext, mResults, mOutcomes,
                   mRequests, mInFlight, mSleeps>>
    /\ UNCHANGED <<fetchVars, searchVars, detailVars, exportVars, getVars>>
    /\ UNCHANGED workVars

\* openalex-service.ts lines 68-71: the response arrived with a status that
\* is not ok; its text is awaited
CitationHeadNotOk ==
    /\ mpc = "fetching"
    /\ mpc' = "text"
    /\ UNCHANGED <<mArticles, mMetrics, mNext, mResults, mOutcomes,
                   mRequests, mInFlight, mSleeps>>
    /\ UNCHANGED <<fetchVars, searchVars, detailVars, exportVars, getVars>>
    /\ UNCHANGED workVars

\* openalex-service.ts lines 75-92: the body was parsed and its works are
\* kept, or response.json() rejected and the batch is empty
CitationBody ==
    /\ mpc = "body"
    /\ \E outcome \in {"ok", "badJson"} : AfterBatch(outcome)

\* openalex-service.ts lines 71-72 and 89-93: the text was read, or
\* response.text() rejected; either way the batch is empty
CitationText ==
    /\ mpc = "text"
    /\ AfterBatch("notOk")

\* openalex-service.ts lines 38 and 49: the delay is over; the loop goes on
CitationWake ==
    /\ mpc = "delay"
    /\ mNext' = mNext + BATCH_SIZE
    /\ mpc' = "batches"
    /\ UNCHANGED <<mArticles, mMetrics, mResults, mOutcomes, mRequests,
                   mInFlight, mSleeps>>
    /\ UNCHANGED <<fetchVars, searchVars, detailVars, exportVars, getVars>>
    /\ UNCHANGED workVars

\* scraper.ts lines 545-566: the map is back; the metrics are applied
EnrichCitations ==
    /\ mpc = "batches" /\ mNext >= Len(ArticlesWithDOI)
    /\ mMetrics' = [i \in {j \in 1..Len(mArticles) :
                              CitationPass(j, mResults) # None} |->
                       CitationPass(i, mResults)[1]]
    /\ mpc' = "done"
    /\ UNCHANGED <<mArticles, mNext, mResults, mOutcomes, mRequests,
                   mInFlight, mSleeps>>
    /\ UNCHANGED <<fetchVars, searchVars, detailVars, exportVars, getVars>>
    /\ UNCHANGED workVars

\* ---- OpenAlexService.getMetricsByDOI ----

\* the DOIs handed to getMetricsByDOI, by their number in the test data
WorkDois == 1..4

\* openalex-service.ts line 4
OPENALEX_BASE_URL ==
    <<"h","t","t","p","s",":","/","/","a","p","i",".","o","p","e","n","a","l","e","x",".","o","r","g">>

\* openalex-service.ts line 11: `${this.BASE_URL}/works/https://doi.org/${doi}`
WorkUrl(doi) ==
    OPENALEX_BASE_URL \o <<"/","w","o","r","k","s","/">> \o TextDoiOrg \o doi

\* how the body of an ok answer ends: the work of the DOI, JSON that is no
\* object (null), or a body that is not JSON
WorkBodies == {"work", "null", "badJson"}

\* openalex-service.ts lines 21-25 and 100-105: what the call returns for
\* the body of an ok answer to the request for the n-th DOI
WorkMetrics(n, body) ==
    IF body = "work" THEN Some(ParseOpenAlexWork(WorkFor(n, DoiText(n))))
    ELSE None

\* one call of getMetricsByDOI
InitWork ==
    /\ IdleEnrich
    /\ wpc = "start"
    /\ \E n \in WorkDois : wDoi = DoiText(n)
    /\ wRequests = <<>>
    /\ wInFlight = {}
    /\ wAnswer = "none"
    /\ wReturned = NoResult

workUnchanged ==
    /\ UNCHANGED <<mArticles, mpc, mMetrics, mNext, mResults, mOutcomes,
                   mRequests, mInFlight, mSleeps>>
    /\ UNCHANGED <<fetchVars, searchVars, detailVars, exportVars, getVars>>

\* openalex-service.ts lines 10-12: the url is built and the request sent
WorkRequest ==
    /\ wpc = "start"
    /\ wRequests' = Append(wRequests, WorkUrl(wDoi))
    /\ wInFlight' = {Len(wRequests) + 1}
    /\ wpc' = "fetching"
    /\ UNCHANGED <<wDoi, wAnswer, wReturned>>
    /\ workUnchanged

\* openalex-service.ts lines 12, 23-25: fetch rejected; null is returned
WorkThrows ==
    /\ wpc = "fetching"
    /\ wAnswer' = "rejected"
    /\ wInFlight' = {}
    /\ wReturned' = [kind |-> "value", value |-> None]
    /\ wpc' = "done"
    /\ UNCHANGED <<wDoi, wRequests>>
    /\ workUnchanged

\* openalex-service.ts lines 12-21: the answer has an ok status; its body
\* is awaited
WorkHeadOk ==
    /\ wpc = "fetching"
    /\ wAnswer' = 200
    /\ wpc' = "body"
    /\ UNCHANGED <<wDoi, wRequests, wInFlight, wReturned>>
    /\ workUnchanged

\* openalex-service.ts lines 14-19, 23-25: the status is 404, or another
\* one that is not ok, whose error is caught; null is returned
WorkNotOk ==
    /\ wpc = "fetching"
    /\ wAnswer' \in {404, 500}
    /\ wReturned' = [kind |-> "value", value |-> None]
    /\ wInFlight' = {}
    /\ wpc' = "done"
    /\ UNCHANGED <<wDoi, wRequests>>
    /\ workUnchanged

\* openalex-service.ts lines 21-25: the body was read and parsed, or
\* response.json() rejected
WorkBody ==
    /\ wpc = "body"
    /\ \E body \in WorkBodies, n \in WorkDois :
         /\ wDoi = DoiText(n)
         /\ wReturned' = [kind |-> "value", value |-> WorkMetrics(n, body)]
    /\ wInFlight' = {}
    /\ wpc' = "done"
    /\ UNCHANGED <<wDoi, wRequests, wAnswer>>
    /\ workUnchanged

----------------------------------------------------------------------------
(* BibliographicExporter: RIS and BibTeX                                   *)

\* largest number of articles in an exported list
MaxExportList == 3

\* array.join(sep) of an array of strings
RECURSIVE Join(_, _)
Join(parts, sep) ==
    IF parts = <<>> THEN <<>>
    ELSE IF Len(parts) = 1 THEN parts[1]
    ELSE parts[1] \o sep \o Join(Tail(parts), sep)

\* s.replace(/<[^>]*>/g, ''): every run from "<" to the next ">" is removed
RECURSIVE StripTags(_)
StripTags(s) ==
    IF s = <<>> THEN <<>>
    ELSE IF Head(s) = "<" /\ \E i \in 2..Len(s) : s[i] = ">"
    THEN LET close == CHOOSE i \in 2..Len(s) :
                          s[i] = ">" /\ \A j \in 2..(i - 1) : s[j] # ">"
         IN  StripTags(SubSeq(s, close + 1, Len(s)))
    ELSE <<Head(s)>> \o StripTags(Tail(s))

\* a string is truthy when it is set and not empty
Truthy(o, k) == Has(o, k) /\ o.vals[k] # <<>>

\* part_005 lines 195-198
ExtractYear(dateString) == MatchYear(dateString)

TextArtigo == <<"A","r","t","i","g","o">>
TextCapitulo == <<"C","a","p","í","t","u","l","o"," ","d","e"," ","l","i","v","r","o">>
TextCarta == <<"C","a","r","t","a">>
TextErrata == <<"E","r","r","a","t","a">>
TextRevisao == <<"R","e","v","i","s","ã","o">>
TextJOUR == <<"J","O","U","R">>

\* part_005 lines 14-20
RIS_TYPE_MAPPING ==
    (TextArtigo :> <<"J","O","U","R">>) @@ (TextCapitulo :> <<"C","H","A","P">>)
      @@ (TextCarta :> <<"N","E","W","S">>) @@ (TextErrata :> <<"J","O","U","R">>)
      @@ (TextRevisao :> <<"J","O","U","R">>)

\* two of the properties an object literal inherits from Object.prototype,
\* each with the text a template literal gives its value
ObjectPrototype ==
    (<<"c","o","n","s","t","r","u","c","t","o","r">> :> <<"f","u","n","c","t","i","o","n"," ","O","b","j","e","c","t","(",")"," ","{"," ","[","n","a","t","i","v","e"," ","c","o","d","e","]"," ","}">>)
      @@ (<<"t","o","S","t","r","i","n","g">> :> <<"f","u","n","c","t","i","o","n"," ","t","o","S","t","r","i","n","g","(",")"," ","{"," ","[","n","a","t","i","v","e"," ","c","o","d","e","]"," ","}">>)

\* table[key] of an object literal: an own property, else an inherited
\* one, else undefined
Lookup(table, key) ==
    IF key \in DOMAIN table THEN Some(table[key])
    ELSE IF key \in DOMAIN ObjectPrototype THEN Some(ObjectPrototype[key])
    ELSE None

\* part_005 lines 187-193, for article.document_type
GetRISType(article) ==
    IF ~Truthy(article, "document_type") THEN TextJOUR
    ELSE LET found == Lookup(RIS_TYPE_MAPPING, article.vals.document_type)
         IN  IF found # None /\ found # Some(<<>>) THEN found[1]
             ELSE TextJOUR

\* `XX  - `, the start of a RIS line
RisTag(tag) == tag \o <<" "," ","-"," ">>

\* part_005 lines 166-179 and 335-348: the notes of an article
ExportNotes(article) ==
    (IF Has(article, "is_open_access") /\ article.vals.is_open_access
     THEN <<<<"O","p","e","n"," ","A","c","c","e","s","s">>>> ELSE <<>>)
    \o (IF Has(article, "is_peer_reviewed") /\ article.vals.is_peer_reviewed
        THEN <<<<"P","e","e","r"," ","R","e","v","i","e","w","e","d">>>> ELSE <<>>)
    \o (IF Truthy(article, "article_id")
        THEN <<<<"C","A","P","E","S"," ","I","D",":"," ">> \o article.vals.article_id>> ELSE <<>>)

\* the RIS line of a text field, when the field is set and not empty
RisField(article, tag, field) ==
    IF Truthy(article, field)
    THEN <<RisTag(tag) \o article.vals[field]>> ELSE <<>>

\* part_005 lines 81-182: the lines of the record of an article with a title
RisLines(article) ==
    <<RisTag(<<"T","Y">>) \o GetRISType(article),
      RisTag(<<"T","I">>) \o article.vals.title>>
    \o (IF Has(article, "authors")
        THEN [i \in 1..Len(article.vals.authors) |->
                 RisTag(<<"A","U">>) \o article.vals.authors[i]]
        ELSE <<>>)
    \o (IF Truthy(article, "publication_date")
           /\ ExtractYear(article.vals.publication_date) # None
        THEN <<RisTag(<<"P","Y">>)
                 \o ExtractYear(article.vals.publication_date)[1]>>
        ELSE <<>>)
    \o RisField(article, <<"T","2">>, "journal")
    \o RisField(article, <<"J","F">>, "journal")
    \o RisField(article, <<"V","L">>, "volume")
    \o RisField(article, <<"I","S">>, "issue")
    \o (IF Truthy(article, "abstract")
        THEN <<RisTag(<<"A","B">>) \o Trim(StripTags(article.vals.abstract))>>
        ELSE <<>>)
    \o RisField(article, <<"D","O">>, "doi")
    \o RisField(article, <<"S","N">>, "issn")
    \o RisField(article, <<"P","B">>, "publisher")
    \o RisField(article, <<"L","A">>, "language")
    \o RisField(article, <<"U","R">>, "detail_url")
    \o RisField(article, <<"K","W">>, "search_term")
    \o (IF ExportNotes(article) # <<>>
        THEN <<RisTag(<<"N","1">>) \o Join(ExportNotes(article), <<";"," ">>)>>
        ELSE <<>>)
    \o <<RisTag(<<"E","R">>)>>

\* mutant: an article without title gets a record without TI line
ConvertArticleToRIS_Untitled(article) ==
    IF Truthy(article, "title")
    THEN Some(Join(RisLines(article), <<"\r","\n">>))
    ELSE Some(Join(<<RisTag(<<"T","Y">>) \o GetRISType(article), RisTag(<<"E","R">>)>>,
                   <<"\r","\n">>))

\* part_005 lines 80-185: the record, or null for an article without title
ConvertArticleToRIS(article) ==
    IF Truthy(article, "title")
    THEN Some(Join(RisLines(article), <<"\r","\n">>))
    ELSE None

\* part_005 lines 25-30 and 204-209: the non-null records, in input order
RECURSIVE CollectRecords(_)
CollectRecords(converted) ==
    IF converted = <<>> THEN <<>>
    ELSE (IF Head(converted) = None THEN <<>> ELSE <<Head(converted)[1]>>)
           \o CollectRecords(Tail(converted))

\* part_005 lines 32 and 211: records.join('\n\n') + '\n'
ExportContent(records) == Join(records, <<"\n","\n">>) \o <<"\n">>

\* the characters \s matches among those the model uses
Whitespace == {" ", "\n", "\r", "\t"}

UpperLetters == <<"A","B","C","D","E","F","G","H","I","J","K","L","M","N","O","P","Q","R","S","T","U","V","W","X","Y","Z">>
LowerLetters == <<"a","b","c","d","e","f","g","h","i","j","k","l","m","n","o","p","q","r","s","t","u","v","w","x","y","z">>

\* String.prototype.toLowerCase, character by character
ToLowerCase(s) ==
    [i \in 1..Len(s) |->
        IF \E n \in 1..26 : UpperLetters[n] = s[i]
        THEN LowerLetters[CHOOSE n \in 1..26 : UpperLetters[n] = s[i]]
        ELSE s[i]]

\* s.split(/\s+/)
RECURSIVE SplitWhitespace(_, _)
SplitWhitespace(s, word) ==
    IF s = <<>> THEN <<word>>
    ELSE IF Head(s) \in Whitespace
    THEN <<word>> \o SplitWhitespace(TrimWhitespaceStart(Tail(s)), <<>>)
    ELSE SplitWhitespace(Tail(s), Append(word, Head(s)))

\* part_005 lines 265-269: the first 3 words of more than 3 characters of
\* the lower-cased title without its other characters
TitleWords(title) ==
    LET kept == SelectSeq(ToLowerCase(title), LAMBDA c :
                    \/ \E n \in 1..26 : LowerLetters[n] = c
                    \/ c \in Digits
                    \/ c \in Whitespace)
        long == SelectSeq(SplitWhitespace(kept, <<>>),
                          LAMBDA word : Len(word) > 3)
    IN  SliceTo(long, 3)

TextUnknown == <<"u","n","k","n","o","w","n">>

\* part_005 line 271
BibYear(article) ==
    LET date == IF Truthy(article, "publication_date")
                THEN article.vals.publication_date ELSE <<>>
    IN  IF ExtractYear(date) # None /\ ExtractYear(date) # Some(<<>>)
        THEN ExtractYear(date)[1] ELSE TextUnknown

\* part_005 line 272
CitationKey(article) ==
    Join(TitleWords(article.vals.title), <<>>) \o BibYear(article)

\* part_005 lines 356-362
BibTypeMapping ==
    (TextArtigo :> <<"a","r","t","i","c","l","e">>) @@ (TextCapitulo :> <<"i","n","b","o","o","k">>)
      @@ (TextCarta :> <<"a","r","t","i","c","l","e">>) @@ (TextErrata :> <<"a","r","t","i","c","l","e">>)
      @@ (TextRevisao :> <<"a","r","t","i","c","l","e">>)

\* part_005 lines 355-365: typeMapping[documentType || ''] || 'article'
GetBibTeXType(article) ==
    LET key == IF Truthy(article, "document_type")
               THEN article.vals.document_type ELSE <<>>
        found == Lookup(BibTypeMapping, key)
    IN  IF found # None /\ found # Some(<<>>) THEN found[1]
        ELSE <<"a","r","t","i","c","l","e">>

\* s.replace(/c/g, rep) for a single character c
RECURSIVE ReplaceAll(_, _, _)
ReplaceAll(s, c, rep) ==
    IF s = <<>> THEN <<>>
    ELSE (IF Head(s) = c THEN rep ELSE <<Head(s)>>)
           \o ReplaceAll(Tail(s), c, rep)

\* the characters escapeBibTeXValue escapes, in the order of its replacements
LatexSpecials == <<"\\", "{", "}", "$", "&", "%", "#">>

\* mutant: the backslash is replaced last
EscapeBibTeXValue_BackslashLast(value) ==
    ReplaceAll(ReplaceAll(ReplaceAll(ReplaceAll(ReplaceAll(ReplaceAll(
        ReplaceAll(value, "{", <<"\\", "{">>),
        "}", <<"\\", "}">>), "$", <<"\\", "$">>), "&", <<"\\", "&">>),
        "%", <<"\\", "%">>), "#", <<"\\", "#">>), "\\", <<"\\", "\\">>)

\* part_005 lines 367-376: seven replacements, the backslash first
EscapeBibTeXValue(value) ==
    ReplaceAll(ReplaceAll(ReplaceAll(ReplaceAll(ReplaceAll(ReplaceAll(
        ReplaceAll(value, "\\", <<"\\", "\\">>),
        "{", <<"\\", "{">>), "}", <<"\\", "}">>), "$", <<"\\", "$">>),
        "&", <<"\\", "&">>), "%", <<"\\", "%">>), "#", <<"\\", "#">>)

\* `  name = {value},`
BibLine(name, value) == <<" "," ">> \o name \o <<" ","="," ","{">> \o value \o <<"}",",">>

\* the line of a text field that is escaped, when it is set and not empty
BibField(article, name, field) ==
    IF Truthy(article, field)
    THEN <<BibLine(name, EscapeBibTeXValue(article.vals[field]))>>
    ELSE <<>>

\* the line of a text field that is written as it is
BibRawField(article, name, field) ==
    IF Truthy(article, field)
    THEN <<BibLine(name, article.vals[field])>> ELSE <<>>

\* part_005 lines 274-350: the lines of the entry of an article with a title
BibLines(article) ==
    <<<<"@">> \o GetBibTeXType(article) \o <<"{">> \o CitationKey(article) \o <<",">>,
      BibLine(<<"t","i","t","l","e">>, EscapeBibTeXValue(article.vals.title))>>
    \o (IF Has(article, "authors") /\ Len(article.vals.authors) > 0
        THEN <<BibLine(<<"a","u","t","h","o","r">>,
                 EscapeBibTeXValue(Join(article.vals.authors, <<" ","a","n","d"," ">>)))>>
        ELSE <<>>)
    \o BibField(article, <<"j","o","u","r","n","a","l">>, "journal")
    \o (IF BibYear(article) # TextUnknown
        THEN <<BibLine(<<"y","e","a","r">>, BibYear(article))>> ELSE <<>>)
    \o BibField(article, <<"v","o","l","u","m","e">>, "volume")
    \o BibField(article, <<"n","u","m","b","e","r">>, "issue")
    \o (IF Truthy(article, "abstract")
        THEN <<BibLine(<<"a","b","s","t","r","a","c","t">>, EscapeBibTeXValue(
                 Trim(StripTags(article.vals.abstract))))>>
        ELSE <<>>)
    \o BibRawField(article, <<"d","o","i">>, "doi")
    \o BibRawField(article, <<"u","r","l">>, "detail_url")
    \o BibField(article, <<"p","u","b","l","i","s","h","e","r">>, "publisher")
    \o BibField(article, <<"l","a","n","g","u","a","g","e">>, "language")
    \o (IF ExportNotes(article) # <<>>
        THEN <<BibLine(<<"n","o","t","e">>,
                 EscapeBibTeXValue(Join(ExportNotes(article), <<";"," ">>)))>>
        ELSE <<>>)
    \o <<<<"}">>>>

\* part_005 lines 259-353: the entry, or null for an article without title
ConvertArticleToBibTeX(article) ==
    IF Truthy(article, "title")
    THEN Some(Join(BibLines(article), <<"\n">>))
    ELSE None

\* ---- the articles handed to the exporter ----

TitleChoices ==
    {None, Some(<<>>), Some(<<"D","e","e","p"," ","N","e","t","s"," ","&"," ","{","A","I","}">>),
     Some(<<"O","n"," ","$","5"," ","#","1"," ","1","0","0","%"," ","a","\\","b">>),
     Some(<<"D","e","e","p","\r","\n","N","e","t","s">>), Some(<<"A","\r","\n","T","I"," "," ","-"," ","B">>)}

DocumentTypeChoices ==
    {None, Some(<<>>), Some(TextArtigo), Some(TextCapitulo), Some(TextCarta),
     Some(TextErrata), Some(TextRevisao), Some(<<"T","e","s","e">>),
     Some(<<"c","o","n","s","t","r","u","c","t","o","r">>)}

AuthorChoices ==
    {None, Some(<<>>), Some(<<<<"A","n","a"," ","L","i","m","a">>>>),
     Some(<<<<"A","n","a"," ","L","i","m","a">>, <<"B","o"," ","&"," ","C","o">>>>)}

DateChoices == {None, Some(<<"2","0","2","1">>), Some(<<"M","a","y"," ","1","9","9","9">>), Some(<<"n",".","d",".">>)}

RestChoices == {"none", "some", "all"}

\* every article of the exporter's input is described by its title, its
\* document type, its authors, its date and how many other fields it has
ArticleSketches ==
    [title : TitleChoices, document_type : DocumentTypeChoices,
     authors : AuthorChoices, publication_date : DateChoices,
     rest : RestChoices]

\* the articles that make up the longer input lists
ListSketches ==
    {[title |-> Some(<<"D","e","e","p"," ","N","e","t","s"," ","&"," ","{","A","I","}">>), document_type |-> Some(TextCarta),
      authors |-> Some(<<<<"A","n","a"," ","L","i","m","a">>, <<"B","o"," ","&"," ","C","o">>>>),
      publication_date |-> Some(<<"M","a","y"," ","1","9","9","9">>), rest |-> "all"],
     [title |-> None, document_type |-> Some(TextArtigo),
      authors |-> Some(<<<<"A","n","a"," ","L","i","m","a">>>>),
      publication_date |-> Some(<<"2","0","2","1">>), rest |-> "some"],
     [title |-> Some(<<>>), document_type |-> None, authors |-> None,
      publication_date |-> None, rest |-> "none"],
     [title |-> Some(<<"D","e","e","p"," ","N","e","t","s"," ","&"," ","{","A","I","}">>), document_type |-> None,
      authors |-> Some(<<>>), publication_date |-> None, rest |-> "none"],
     [title |-> Some(<<"T","h","e"," ","D","e","e","p"," ","N","e","t","s">>), document_type |-> None,
      authors |-> Some(<<<<"B","o"," ","&"," ","C","o">>>>),
      publication_date |-> Some(<<"1","9","9","9">>), rest |-> "some"]}

\* the other fields of an article
RestFields(rest) ==
    CASE rest = "none" ->
           [is_open_access |-> FALSE, is_peer_reviewed |-> FALSE]
      [] rest = "some" ->
           [journal |-> <<"J">>, abstract |-> <<>>, language |-> <<"P","T">>,
            detail_url |-> <<"h","t","t","p","s",":","/","/","p",".","b","r","/","b",".","h","t","m","l","?","t","a","s","k","=","d","&","i","d","=","W","2">>,
            is_open_access |-> FALSE, is_peer_reviewed |-> TRUE]
      [] rest = "all" ->
           [journal |-> <<"J","."," ","o","f"," ","{","X","}">>, volume |-> <<"1","2">>, issue |-> <<"3">>,
            abstract |-> <<" ","<","p",">","A","b","s"," ","&"," ","m","o","r","e","<","/","p",">"," ">>, doi |-> <<"1","0",".","1","0","0","0","/","a","#","b">>,
            issn |-> <<"1","2","3","4","-","5","6","7","8">>, publisher |-> <<"P","u","b","_","%">>, language |-> <<"E","N">>,
            detail_url |-> <<"h","t","t","p","s",":","/","/","p",".","b","r","/","b",".","h","t","m","l","?","t","a","s","k","=","d","&","i","d","=","W","1">>,
            search_term |-> <<"m","l">>, article_id |-> <<"W","1">>,
            is_open_access |-> TRUE, is_peer_reviewed |-> TRUE]

\* the Article object of a sketch
SketchArticle(sketch) ==
    LET main == {"title", "document_type", "authors", "publication_date"}
        set == {k \in main : sketch[k] # None}
        rest == RestFields(sketch.rest)
    IN  [keys |-> set \cup DOMAIN rest,
         vals |-> [k \in set \cup DOMAIN rest |->
                      IF k \in main THEN sketch[k][1] ELSE rest[k]]]

\* ---- exportToRISFile and exportToBibTeXFile ----

\* process.cwd()
Cwd == <<"/","w">>

OutputDirChoices == {None, Some(<<"/","o","u","t">>)}

FilenameChoices ==
    {None, Some(<<>>), Some(<<"r","e","f","s">>), Some(<<"r","e","f","s",".","r","i","s">>), Some(<<"r","e","f","s",".","b","i","b">>)}

\* no reading of the clock
NoClock ==
    [year |-> 0, month |-> 0, date |-> 0, hours |-> 0, minutes |-> 0,
     seconds |-> 0, ms |-> 0]

\* the local time new Date() gives, the process running in UTC;
\* month is getMonth(), counted from 0: the clock when a call starts
ClockChoices ==
    {[year |-> 2026, month |-> 0, date |-> 5, hours |-> 9, minutes |-> 3,
      seconds |-> 7, ms |-> 41],
     [year |-> 2025, month |-> 11, date |-> 31, hours |-> 23, minutes |-> 59,
      seconds |-> 59, ms |-> 999]}

\* n.toString().padStart(width, '0')
RECURSIVE PadStart(_, _)
PadStart(s, width) ==
    IF Len(s) >= width THEN s ELSE PadStart(<<"0">> \o s, width)

\* part_005 lines 45-50 and 224-229
Timestamp(now) ==
    NumberToString(now.year)
      \o PadStart(NumberToString(now.month + 1), 2)
      \o PadStart(NumberToString(now.date), 2)
      \o PadStart(NumberToString(now.hours), 2)
      \o PadStart(NumberToString(now.minutes), 2)
      \o PadStart(NumberToString(now.seconds), 2)

\* Date.prototype.toISOString
ToISOString(now) ==
    PadStart(NumberToString(now.year), 4) \o <<"-">>
      \o PadStart(NumberToString(now.month + 1), 2) \o <<"-">>
      \o PadStart(NumberToString(now.date), 2) \o <<"T">>
      \o PadStart(NumberToString(now.hours), 2) \o <<":">>
      \o PadStart(NumberToString(now.minutes), 2) \o <<":">>
      \o PadStart(NumberToString(now.seconds), 2) \o <<".">>
      \o PadStart(NumberToString(now.ms), 3) \o <<"Z">>

\* String.prototype.endsWith
EndsWith(s, suffix) ==
    Len(s) >= Len(suffix)
    /\ SubSeq(s, Len(s) - Len(suffix) + 1, Len(s)) = suffix

\* the extension of a format's files
Extension(format) == IF format = "ris" THEN <<".","r","i","s">> ELSE <<".","b","i","b">>

\* part_005 lines 43 and 222: !finalFilename
NoFilename(filename) == filename = None \/ filename = Some(<<>>)

\* part_005 lines 41-57 and 220-236
FinalFilename(filename, format, now) ==
    LET given == IF ~NoFilename(filename)
                 THEN filename[1]
                 ELSE <<"c","a","p","e","s","_","e","x","p","o","r","t","_">> \o Timestamp(now) \o Extension(format)
    IN  IF EndsWith(given, Extension(format)) THEN given
        ELSE given \o Extension(format)

\* part_005 lines 39 and 218
TargetDir(outputDir) ==
    IF outputDir # None /\ outputDir # Some(<<>>) THEN outputDir[1] ELSE Cwd

\* path.join(dir, name) for an absolute dir and a plain name
PathJoin(dir, name) == dir \o <<"/">> \o name

\* the number of bytes of a text written as UTF-8
Utf8Length(s) ==
    Len(s) + Cardinality({i \in 1..Len(s) : s[i] \in {"í", "ã"}})

\* part_005 lines 26 and 205: the conversion of the format
ConvertArticle(article, format) ==
    IF format = "ris" THEN ConvertArticleToRIS(article)
    ELSE ConvertArticleToBibTeX(article)

\* part_005 lines 74 and 253: article_count
ReportedCount(list, records) == Len(list)

IdleExport ==
    /\ eOp = "none"
    /\ eCall = 0
    /\ fsWrites = <<>>
    /\ xResult = NoResult
    /\ eArticles = <<>>
    /\ eFormat = "none"
    /\ eOutputDir = None
    /\ eFilename = None
    /\ eTotalFound = 0
    /\ eNow = NoClock
    /\ eDirNow = NoClock
    /\ ePreviewTotal = 0
    /\ epc = "idle"
    /\ eRecords = <<>>
    /\ eContent = <<>>
    /\ fsDirs = {}
    /\ fsFiles = <<>>
    /\ eResult = NoResult

InitExport ==
    /\ eOp = "file"
    /\ eCall = 1
    /\ fsWrites = <<>>
    /\ xResult = NoResult
    /\ eFormat \in {"ris", "bibtex"}
    /\ \/ /\ \E n \in 0..MaxExportList : eArticles \in [1..n -> ListSketches]
          /\ eOutputDir \in OutputDirChoices
          /\ eFilename \in FilenameChoices
          /\ eNow \in ClockChoices
       \/ /\ \E sketch \in ArticleSketches : eArticles = <<sketch>>
          /\ eOutputDir = None
          /\ eFilename = None
          /\ eNow = [year |-> 2026, month |-> 0, date |-> 5, hours |-> 9,
                     minutes |-> 3, seconds |-> 7, ms |-> 41]
    /\ eTotalFound = 0
    /\ eDirNow = NoClock
    /\ ePreviewTotal = 0
    /\ epc = "start"
    /\ eRecords = <<>>
    /\ eContent = <<>>
    /\ fsDirs = {Cwd}
    /\ fsFiles = <<>>
    /\ eResult = NoResult

exportInputs ==
    <<eOp, eCall, eArticles, eFormat, eOutputDir, eFilename, eTotalFound>>

\* what the search calls keep between their steps
exportLocals == <<eDirNow, ePreviewTotal>>

\* part_005 lines 22-33 and 201-212: exportToRIS / exportToBibTeX
ExportBuild ==
    /\ epc = "start"
    /\ LET records == CollectRecords(
               [i \in 1..Len(eArticles) |->
                   ConvertArticle(SketchArticle(eArticles[i]), eFormat)])
       IN  /\ eRecords' = records
           /\ eContent' = ExportContent(records)
    /\ epc' = "content"
    /\ UNCHANGED <<exportInputs, exportLocals, eNow, fsDirs, fsFiles,
                   fsWrites, eResult, xResult>>
    /\ UNCHANGED <<fetchVars, searchVars, detailVars, metricVars, getVars>>

\* the values the clock takes: those of ClockChoices, the end of their
\* second and the start of the next
ClockUniverse ==
    ClockChoices \cup {[c EXCEPT !.ms = 999] : c \in ClockChoices}
      \cup {[year |-> 2026, month |-> 0, date |-> 5, hours |-> 9,
             minutes |-> 3, seconds |-> 8, ms |-> 0],
            [year |-> 2026, month |-> 0, date |-> 1, hours |-> 0,
             minutes |-> 0, seconds |-> 0, ms |-> 0]}

ClockKey(c) ==
    <<c.year, c.month, c.date, c.hours, c.minutes, c.seconds, c.ms>>

RECURSIVE KeyBefore(_, _)
KeyBefore(a, b) ==
    /\ a # <<>>
    /\ \/ Head(a) < Head(b)
       \/ Head(a) = Head(b) /\ KeyBefore(Tail(a), Tail(b))

\* what new Date() can give after it gave `now`: the clock does not go back
LaterClocks(now) ==
    {c \in ClockUniverse : ~KeyBefore(ClockKey(c), ClockKey(now))}

\* an entry of the record of writes: the path, the call, and the reading of
\* the clock its name was made from
FileWrite(filePath, now) ==
    [path |-> filePath, call |-> eCall, at |-> now,
     named |-> ~NoFilename(eFilename)]

\* part_005 lines 38-77 and 217-256: the file is written and reported; the
\* clock is read for the name when none is given (lines 44 and 223) and
\* again for created_at (lines 76 and 255). A search export goes on to its
\* metadata (scraper.ts lines 783-789)
ExportWrite ==
    /\ epc = "content"
    /\ \E now \in (IF NoFilename(eFilename) THEN LaterClocks(eNow)
                   ELSE {eNow}) :
         \E created \in LaterClocks(now) :
           LET targetDir == TargetDir(eOutputDir)
               filePath == PathJoin(targetDir,
                                    FinalFilename(eFilename, eFormat, now))
           IN  /\ fsDirs' = fsDirs \cup {targetDir}
               /\ fsFiles' = (filePath :> eContent) @@ fsFiles
               /\ fsWrites' = Append(fsWrites, FileWrite(filePath, now))
               /\ eResult' = [kind |-> "value",
                              file_path |-> filePath,
                              article_count |->
                                  ReportedCount(eArticles, eRecords),
                              file_size_bytes |-> Utf8Length(eContent),
                              created_at |-> ToISOString(created)]
               /\ eNow' = created
    /\ epc' = (IF eOp = "file" THEN "done" ELSE "metadata")
    /\ UNCHANGED <<exportInputs, exportLocals, eRecords, eContent, xResult>>
    /\ UNCHANGED <<fetchVars, searchVars, detailVars, metricVars, getVars>>

----------------------------------------------------------------------------
(* exportSearch / searchArticles, and a second call of an export           *)

\* the operations that search before they export
SearchOps == {"exportSearch", "searchArticles"}

\* largest list of articles in the calls of a pair
MaxRepeatList == 1

RepeatSketches == {s \in ListSketches : s.rest = "some"}

\* the articles a call exports: handed in, or what its search yielded
RepeatLists == UNION {[1..n -> RepeatSketches] : n \in 0..MaxRepeatList}

RepeatFilenames == {None, Some(<<"r","e","f","s">>)}

\* mutant: an empty search result is exported like any other
NoArticles_Never(list) == FALSE

\* lines 764 and 876: !searchResult.articles || articles.length === 0
NoArticles(list) == Len(list) = 0

\* lines 765 and 877: throw new Error('No articles found for export')
NoArticlesError ==
    [kind |-> "error", message |-> <<"N","o"," ","a","r","t","i","c","l","e","s"," ","f","o","u","n","d"," ","f","o","r"," ","e","x","p","o","r","t">>]

\* String.prototype.replace(/[:.]/g, '-')
ReplaceColonDot(s) ==
    [i \in 1..Len(s) |-> IF s[i] \in {":", "."} THEN "-" ELSE s[i]]

\* lines 769 and 881: toISOString().replace(/[:.]/g, '-').slice(0, 19)
DirTimestamp(now) == SliceTo(ReplaceColonDot(ToISOString(now)), 19)

\* lines 770-771 and 882-883: path.join(process.cwd(), dirName)
ExportDir(now) == PathJoin(Cwd, <<"c","a","p","e","s","_","e","x","p","o","r","t","_">> \o DirTimestamp(now))

\* path.basename of a path that has a directory part
Basename(path) ==
    LET slash == CHOOSE i \in 1..Len(path) :
                     /\ path[i] = "/"
                     /\ \A j \in (i + 1)..Len(path) : path[j] # "/"
    IN  SubSeq(path, slash + 1, Len(path))

MetadataName == <<"m","e","t","a","d","a","t","a",".","j","s","o","n">>

\* lines 801 and 906
CapesPortalInfo ==
    <<"P","o","r","t","a","l"," ","d","e"," ","P","e","r","i","ó","d","i","c","o","s"," ","C","A","P","E","S"," ","(","I","E","E","E",","," ","A","C","M",","," ","E","l","s","e","v","i","e","r",","," ","W","o","S",","," ","S","c","o","p","u","s",","," ","e","t","c",".",")">>

\* lines 802 and 907
ToolVersion == <<"4",".","4",".","7">>

\* lines 817 and 922
MetadataDescription ==
    <<"S","e","a","r","c","h"," ","a","n","d"," ","e","x","p","o","r","t"," ","m","e","t","a","d","a","t","a"," ","f","o","r"," ","r","e","p","r","o","d","u","c","i","b","i","l","i","t","y">>

\* lines 821-825 and 926-930
UsageNotes(format) ==
    [import_to_zotero |->
         IF format = "ris"
         THEN <<"I","m","p","o","r","t"," ","t","h","e"," ",".","r","i","s"," ","f","i","l","e"," ","d","i","r","e","c","t","l","y"," ","i","n","t","o"," ","Z","o","t","e","r","o">>
         ELSE <<"U","s","e"," ","'","I","m","p","o","r","t"," ","f","r","o","m"," ","B","i","b","T","e","X","'"," ","o","p","t","i","o","n"," ","i","n"," ","Z","o","t","e","r","o">>,
     import_to_mendeley |->
         IF format = "ris"
         THEN <<"U","s","e"," ","'","I","m","p","o","r","t"," ","R","I","S","'"," ","o","p","t","i","o","n">>
         ELSE <<"U","s","e"," ","'","I","m","p","o","r","t"," ","B","i","b","T","e","X","'"," ","o","p","t","i","o","n">>,
     reproducibility |->
         <<"T","h","i","s"," ","m","e","t","a","d","a","t","a",".","j","s","o","n"," ","c","o","n","t","a","i","n","s"," ","a","l","l"," ","s","e","a","r","c","h"," ","p","a","r","a","m","e","t","e","r","s"," ","f","o","r"," ","e","x","a","c","t"," ","r","e","p","r","o","d","u","c","t","i","o","n">>]

\* lines 792-826 and 897-931: the object written to metadata.json, with
\* search_date read from the clock; the filters are undefined, a property
\* JSON.stringify leaves out
Metadata(dir, fileResult, date) ==
    [search_metadata |->
         [query |-> Query,
          total_found |-> eTotalFound,
          articles_exported |-> Len(eArticles),
          search_date |-> ToISOString(date),
          filters_applied |-> None,
          format |-> eFormat,
          capes_portal_info |-> CapesPortalInfo,
          tool_version |-> ToolVersion,
          export_timestamp |-> DirTimestamp(eDirNow)],
     export_info |->
         [directory |-> dir,
          files |-> <<[name |-> Basename(fileResult.file_path),
                       type |-> eFormat,
                       size_bytes |-> fileResult.file_size_bytes,
                       article_count |-> fileResult.article_count],
                      [name |-> MetadataName, type |-> "metadata",
                       description |-> MetadataDescription]>>],
     usage_notes |-> UsageNotes(eFormat)]

\* lines 831-843: what exportSearch returns, search_date read from the
\* clock once more
ExportResultOf(dir, fileResult, date) ==
    [kind |-> "value",
     export_completed |-> TRUE,
     output_directory |-> dir,
     files_created |-> <<Basename(fileResult.file_path), MetadataName>>,
     articles_exported |-> Len(eArticles),
     format |-> eFormat,
     search_metadata |-> [query |-> Query,
                          total_found |-> eTotalFound,
                          search_date |-> ToISOString(date),
                          filters_applied |-> None]]

\* lines 937-944: the sample made of an article; `year` is its
\* publication_date
SampleArticle(article) ==
    LET from == [title |-> "title", authors |-> "authors",
                 journal |-> "journal", year |-> "publication_date",
                 is_open_access |-> "is_open_access",
                 is_peer_reviewed |-> "is_peer_reviewed"]
    IN  [keys |-> DOMAIN from,
         vals |-> [k \in {f \in DOMAIN from : Has(article, from[f])} |->
                      article.vals[from[k]]]]

\* lines 937-959: what searchArticles returns
SearchArticlesResultOf(dir, fileResult) ==
    [kind |-> "value",
     search_summary |->
         [query |-> Query,
          total_found |-> ePreviewTotal,
          sample_articles |->
              [i \in 1..Min(5, Len(eArticles)) |->
                  SampleArticle(SketchArticle(eArticles[i]))],
          filters_applied |-> None],
     export_result |->
         [files_created |-> <<Basename(fileResult.file_path), MetadataName>>,
          output_directory |-> dir,
          articles_exported |-> Len(eArticles),
          format |-> eFormat]]

\* the total_found a search can report with the articles it returns: the
\* number of its records, none of which or one of which gave no article
TotalFoundChoices(list) == {Len(list), Len(list) + 1}

\* the total_found the preview of searchArticles can report
PreviewTotalChoices == {0, 2}

\* where a call first waits: searchArticles for its preview (line 855),
\* exportSearch for its search (line 752); a file export waits for nothing
FirstStep(operation) ==
    CASE operation = "file" -> "start"
      [] operation = "searchArticles" -> "preview"
      [] operation = "exportSearch" -> "search"

\* one call, and a second one after it: exportToRISFile / exportToBibTeXFile
\* with or without a directory and a filename, or a search export
InitExportCalls ==
    /\ eOp \in {"file"} \cup SearchOps
    /\ eCall = 1
    /\ fsWrites = <<>>
    /\ xResult = NoResult
    /\ eFormat \in {"ris", "bibtex"}
    /\ eArticles \in RepeatLists
    /\ eTotalFound \in (IF eOp = "file" THEN {0}
                        ELSE TotalFoundChoices(eArticles))
    /\ eOutputDir \in (IF eOp = "file" THEN OutputDirChoices ELSE {None})
    /\ eFilename \in (IF eOp = "file" THEN RepeatFilenames ELSE {None})
    /\ eNow \in ClockChoices
    /\ eDirNow = NoClock
    /\ ePreviewTotal = 0
    /\ epc = FirstStep(eOp)
    /\ eRecords = <<>>
    /\ eContent = <<>>
    /\ fsDirs = {Cwd}
    /\ fsFiles = <<>>
    /\ eResult = NoResult

\* lines 855-860: the preview of searchArticles was fetched; the search
\* is called
ExportPreviewOk ==
    /\ eOp = "searchArticles" /\ epc = "preview"
    /\ ePreviewTotal' \in PreviewTotalChoices
    /\ epc' = "search"
    /\ UNCHANGED <<exportInputs, eNow, eDirNow, eRecords, eContent, fsDirs,
                   fsFiles, fsWrites, eResult, xResult>>
    /\ UNCHANGED <<fetchVars, searchVars, detailVars, metricVars, getVars>>

\* lines 855 and 685-687: the preview fetch of searchArticles threw;
\* fresult keeps the error of _fetchWithZyte that searchPreview wraps
ExportPreviewFail ==
    /\ eOp = "searchArticles" /\ epc = "preview"
    /\ \E message \in FetchErrorMessages(PreviewUrl) :
         /\ fresult' = [kind |-> "error", message |-> message]
         /\ xResult' = PreviewFailure(message)
    /\ epc' = "done"
    /\ UNCHANGED <<exportInputs, exportLocals, eNow, eRecords, eContent,
                   fsDirs, fsFiles, fsWrites, eResult>>
    /\ UNCHANGED <<zyteApiKey, maxRetries, attempt, fpc, history, sleeps>>
    /\ UNCHANGED <<searchVars, detailVars, metricVars, getVars>>

\* lines 762-776 and 867-881: the search returned its articles; without
\* articles the call throws, otherwise the clock is read and the export
\* directory is created
ExportSearchStart ==
    /\ eOp \in SearchOps /\ epc = "search"
    /\ IF NoArticles(eArticles)
       THEN /\ xResult' = NoArticlesError
            /\ epc' = "done"
            /\ UNCHANGED <<eOutputDir, fsDirs, eNow, eDirNow>>
       ELSE \E now \in LaterClocks(eNow) :
            /\ eNow' = now
            /\ eDirNow' = now
            /\ fsDirs' = fsDirs \cup {ExportDir(now)}
            /\ eOutputDir' = Some(ExportDir(now))
            /\ epc' = "start"
            /\ xResult' = xResult
    /\ UNCHANGED <<eOp, eCall, eArticles, eFormat, eFilename, eTotalFound,
                   ePreviewTotal, eRecords, eContent, fsFiles, fsWrites,
                   eResult>>
    /\ UNCHANGED <<fetchVars, searchVars, detailVars, metricVars, getVars>>

\* lines 792-843 and 897-959: metadata.json is written, its search_date
\* read from the clock (lines 798 and 903), and the call returns;
\* exportSearch reads the clock again for its result (line 840)
ExportMetadata ==
    /\ eOp \in SearchOps /\ epc = "metadata"
    /\ \E date \in LaterClocks(eNow) :
         \E again \in (IF eOp = "exportSearch" THEN LaterClocks(date)
                       ELSE {date}) :
           LET exportDir == eOutputDir[1]
               metadataPath == PathJoin(exportDir, MetadataName)
           IN  /\ fsFiles' = (metadataPath :>
                                 Metadata(exportDir, eResult, date))
                                @@ fsFiles
               /\ fsWrites' = Append(fsWrites,
                                     FileWrite(metadataPath, eDirNow))
               /\ xResult' = (IF eOp = "exportSearch"
                              THEN ExportResultOf(exportDir, eResult, again)
                              ELSE SearchArticlesResultOf(exportDir, eResult))
               /\ eNow' = again
    /\ epc' = "done"
    /\ UNCHANGED <<exportInputs, exportLocals, eRecords, eContent, fsDirs,
                   eResult>>
    /\ UNCHANGED <<fetchVars, searchVars, detailVars, metricVars, getVars>>

\* index.ts lines 248-249: the next request is handled; the same operation
\* is called again with the same format, directory and filename
ExportAgain ==
    /\ epc = "done" /\ eCall = 1
    /\ eCall' = 2
    /\ eArticles' \in RepeatLists
    /\ eTotalFound' \in (IF eOp = "file" THEN {0}
                         ELSE TotalFoundChoices(eArticles'))
    /\ eNow' \in LaterClocks(eNow)
    /\ eDirNow' = NoClock
    /\ ePreviewTotal' = 0
    /\ epc' = FirstStep(eOp)
    /\ eOutputDir' = (IF eOp = "file" THEN eOutputDir ELSE None)
    /\ eRecords' = <<>>
    /\ eContent' = <<>>
    /\ eResult' = NoResult
    /\ xResult' = NoResult
    /\ fresult' = NoResult
    /\ UNCHANGED <<eOp, eFormat, eFilename, fsDirs, fsFiles, fsWrites>>
    /\ UNCHANGED <<zyteApiKey, maxRetries, attempt, fpc, history, sleeps>>
    /\ UNCHANGED <<searchVars, detailVars, metricVars, getVars>>

----------------------------------------------------------------------------

(* getArticles: the pages of a window of results, then a slice             *)

\* the startIndex arguments tried
StartChoices == {0, 1, 30}

\* the count arguments tried
CountChoices == {0, 1, 2, 31}

\* the sizes of the portal's result list tried: no page holds more than
\* MaxListings records, so that every outcome of the detail fetches of a
\* page is followed
GetTotalChoices == {0, 1, MaxListings}

\* line 704: Math.floor(startIndex / itemsPerPage) + 1
StartPage(startIndex) == (startIndex \div ItemsPerPage) + 1

\* lines 705-706: Math.ceil((startIndex + count) / itemsPerPage)
EndPage(startIndex, count) == CeilDiv(startIndex + count, ItemsPerPage)

\* lines 637-639: sortArticles with sortBy = 'relevance', the default
SortArticles(list) == list

\* Array.prototype.slice(from, to) for 0 <= from <= to
SliceFromTo(seq, from, to) ==
    SubSeq(seq, Min(from, Len(seq)) + 1, Min(to, Len(seq)))

\* lines 726-727: slice(localStartIndex, localStartIndex + count)
RequestedArticles(all, startIndex, count) ==
    LET localStartIndex == startIndex % ItemsPerPage
    IN  SliceFromTo(SortArticles(all), localStartIndex,
                    localStartIndex + count)

IdleGet ==
    /\ gStartIndex = 0
    /\ gCount = 0
    /\ gpc = "idle"
    /\ gPage = 0
    /\ gAllArticles = <<>>
    /\ gFailedPages = {}
    /\ gResult = NoResult

InitGet ==
    /\ op = "getArticles"
    /\ totalItems \in GetTotalChoices
    /\ spanPresent \in BOOLEAN
    /\ noIdEntries \in NoIdChoices
    /\ max_results = 0
    /\ max_pages = 0
    /\ maxWorkers = 0
    /\ full_details = TRUE
    /\ include_metrics = TRUE
    /\ spc = "idle"
    /\ totalPages = 0
    /\ page = 0
    /\ pagePromises = <<>>
    /\ inFlight = {}
    /\ pageResult = <<>>
    /\ fetched = <<>>
    /\ failedPages = {}
    /\ listings = <<>>
    /\ returned = <<>>
    /\ sresult = NoResult
    /\ gStartIndex \in StartChoices
    /\ gCount \in CountChoices
    /\ gpc = "start"
    /\ gPage = 0
    /\ gAllArticles = <<>>
    /\ gFailedPages = {}
    /\ gResult = NoResult

getInputs == <<gStartIndex, gCount>>

\* lines 698-711: the options are built and the loop is entered
GetEnter ==
    /\ op = "getArticles" /\ gpc = "start"
    /\ gPage' = StartPage(gStartIndex)
    /\ gpc' = "pages"
    /\ UNCHANGED <<getInputs, gAllArticles, gFailedPages, gResult>>
    /\ UNCHANGED <<fetchVars, searchVars, detailVars, metricVars, exportVars>>

\* lines 711-713: fetchPage is called for the next page and its fetch issued
GetIssuePage ==
    /\ gpc = "pages" /\ gPage <= EndPage(gStartIndex, gCount)
    /\ fetched' = Append(fetched, gPage)
    /\ inFlight' = {gPage}
    /\ gpc' = "page"
    /\ UNCHANGED <<searchInputs, spc, totalPages, page, pagePromises,
                   pageResult, failedPages, listings, returned, sresult>>
    /\ UNCHANGED <<getInputs, gPage, gAllArticles, gFailedPages, gResult>>
    /\ UNCHANGED <<fetchVars, detailVars, metricVars, exportVars>>

\* lines 714, 698-700: fetchArticleDetails is called on the records of the
\* page, with include_metrics set and no maxWorkers
GetDetailsStart(pageListings) ==
    /\ articleListings' = [i \in 1..Len(pageListings) |->
                              [entry |-> pageListings[i], id |-> "set"]]
    /\ workersArg' = 0
    /\ dIncludeMetrics' = include_metrics
    /\ dpc' = "loop"
    /\ batchStart' = 0
    /\ dInFlight' = {}
    /\ dFetches' = <<>>
    /\ dFailed' = {}
    /\ batchResults' = <<>>
    /\ articles' = <<>>
    /\ inFlight' = {}
    /\ gpc' = "details"
    /\ UNCHANGED <<searchInputs, spc, totalPages, page, pagePromises,
                   pageResult, fetched, failedPages, listings, returned,
                   sresult>>
    /\ UNCHANGED <<getInputs, gPage, gAllArticles, gResult>>
    /\ UNCHANGED <<fetchVars, metricVars, exportVars>>

\* lines 713-714: fetchPage returned the records of the page
GetPageOk ==
    /\ gpc = "page"
    /\ GetDetailsStart(ExtractBasicArticleInfo(gPage))
    /\ UNCHANGED gFailedPages

\* lines 445-448 and 713-714: the fetch of the page threw inside fetchPage,
\* which returned no record
GetPageFail ==
    /\ gpc = "page"
    /\ GetDetailsStart(<<>>)
    /\ gFailedPages' = gFailedPages \cup {gPage}

\* lines 714-715, 711: fetchArticleDetails returned; its articles are pushed
\* and the loop goes on
GetPageDone ==
    /\ gpc = "details" /\ dpc = "done"
    /\ gAllArticles' = gAllArticles \o articles
    /\ gPage' = gPage + 1
    /\ gpc' = "pages"
    /\ UNCHANGED <<getInputs, gFailedPages, gResult>>
    /\ UNCHANGED <<fetchVars, searchVars, detailVars, metricVars, exportVars>>

\* lines 711, 724, 657-660: the loop is over; the preview fetch is issued
GetPreviewIssue ==
    /\ gpc = "pages" /\ gPage > EndPage(gStartIndex, gCount)
    /\ fetched' = Append(fetched, 1)
    /\ inFlight' = {1}
    /\ gpc' = "preview"
    /\ UNCHANGED <<searchInputs, spc, totalPages, page, pagePromises,
                   pageResult, failedPages, listings, returned, sresult>>
    /\ UNCHANGED <<getInputs, gPage, gAllArticles, gFailedPages, gResult>>
    /\ UNCHANGED <<fetchVars, detailVars, metricVars, exportVars>>

\* lines 724-741: the preview was fetched; sort, slice and return
GetReturn ==
    /\ gpc = "preview"
    /\ inFlight' = {}
    /\ LET requestedArticles ==
               RequestedArticles(gAllArticles, gStartIndex, gCount)
       IN  gResult' = [kind |-> "value",
                       articles |-> requestedArticles,
                       total_found |-> PreviewTotalFound,
                       start_index |-> gStartIndex,
                       count_returned |-> Len(requestedArticles),
                       query |-> Query,
                       sort_by |-> "relevance",
                       filters_applied |-> None]
    /\ gpc' = "done"
    /\ UNCHANGED <<searchInputs, spc, totalPages, page, pagePromises,
                   pageResult, fetched, failedPages, listings, returned,
                   sresult>>
    /\ UNCHANGED <<getInputs, gPage, gAllArticles, gFailedPages>>
    /\ UNCHANGED <<fetchVars, detailVars, metricVars, exportVars>>

\* lines 685-687 and 724: the preview fetch threw; the call rejects, and
\* fresult keeps the error of _fetchWithZyte that searchPreview wraps
GetPreviewFail ==
    /\ gpc = "preview"
    /\ inFlight' = {}
    /\ \E message \in FetchErrorMessages(PreviewUrl) :
         /\ fresult' = [kind |-> "error", message |-> message]
         /\ gResult' = PreviewFailure(message)
    /\ gpc' = "done"
    /\ UNCHANGED <<searchInputs, spc, totalPages, page, pagePromises,
                   pageResult, fetched, failedPages, listings, returned,
                   sresult>>
    /\ UNCHANGED <<getInputs, gPage, gAllArticles, gFailedPages>>
    /\ UNCHANGED <<zyteApiKey, maxRetries, attempt, fpc, history, sleeps>>
    /\ UNCHANGED <<detailVars, metricVars, exportVars>>

----------------------------------------------------------------------------

(* Specifications                                                          *)

IdleSearch ==
    /\ op = "none"
    /\ totalItems = 0
    /\ spanPresent = FALSE
    /\ noIdEntries = {}
    /\ max_results = 0
    /\ max_pages = 0
    /\ maxWorkers = 0
    /\ full_details = FALSE
    /\ include_metrics = FALSE
    /\ spc = "idle"
    /\ totalPages = 0
    /\ page = 0
    /\ pagePromises = <<>>
    /\ inFlight = {}
    /\ pageResult = <<>>
    /\ fetched = <<>>
    /\ failedPages = {}
    /\ listings = <<>>
    /\ returned = <<>>
    /\ sresult = NoResult

IdleDetail ==
    /\ articleListings = <<>>
    /\ workersArg = 0
    /\ dIncludeMetrics = FALSE
    /\ dpc = "idle"
    /\ batchStart = 0
    /\ dInFlight = {}
    /\ dFetches = <<>>
    /\ dFailed = {}
    /\ batchResults = <<>>
    /\ articles = <<>>

\* one call of _fetchWithZyte against every behaviour of the proxy
InitFetchOnly ==
    InitFetch /\ IdleSearch /\ IdleDetail /\ IdleMetrics /\ IdleExport
        /\ IdleGet

NextFetch ==
    \/ FetchEnter
    \/ RequestOk
    \/ BodyOk
    \/ BodyFails
    \/ Request520
    \/ RequestNotOk
    \/ RequestThrows
    \/ Wake

SpecFetch == InitFetchOnly /\ [][NextFetch]_vars

\* a search, a preview or a call of fetchArticleDetails, with every outcome
\* of the fetches they make. fetchArticleDetails hands enrichWithMetrics at
\* most MaxListings articles, fewer than BATCH_SIZE: their DOIs make one
\* batch, after which line 48 of openalex-service.ts sets no delay timer
InitCrawl ==
    \/ IdleFetch /\ InitSearch /\ IdleDetail /\ IdleMetrics /\ IdleExport
        /\ IdleGet
    \/ IdleFetch /\ IdleSearch /\ InitDetail /\ IdleMetrics /\ IdleExport
        /\ IdleGet

NextCrawl ==
    \/ SearchIssuePage1 \/ SearchPage1Ok \/ SearchPage1Fail \/ LaunchPage
    \/ PageOk \/ PageFail \/ AwaitAll \/ SearchBasic \/ SearchDetailsStart
    \/ SearchFullDetails \/ PreviewIssue \/ PreviewOk \/ PreviewFail
    \/ DetailStartBatch \/ DetailOk \/ DetailFail \/ DetailBatchDone
    \/ DetailEnrichStart \/ DetailReturn
    \/ EnrichQuality \/ CitationRequest \/ CitationThrows \/ CitationHeadOk
    \/ CitationHeadNotOk \/ CitationBody \/ CitationText \/ EnrichCitations

SpecCrawl == InitCrawl /\ [][NextCrawl]_vars

\* one call of enrichWithMetrics with every outcome of the citation
\* batches, or one call of getMetricsByDOI
InitMetricsOnly ==
    \/ IdleFetch /\ IdleSearch /\ IdleDetail /\ InitMetrics /\ IdleExport
        /\ IdleGet
    \/ IdleFetch /\ IdleSearch /\ IdleDetail /\ InitWork /\ IdleExport
        /\ IdleGet

NextMetrics ==
    \/ EnrichQuality \/ CitationRequest \/ CitationThrows \/ CitationHeadOk
    \/ CitationHeadNotOk \/ CitationBody \/ CitationText \/ CitationWake
    \/ EnrichCitations
    \/ WorkRequest \/ WorkThrows \/ WorkHeadOk \/ WorkNotOk \/ WorkBody

SpecMetrics == InitMetricsOnly /\ [][NextMetrics]_vars

\* one call of _fetchWithZyte in which the steps of the code are taken
\* whenever they can be: the first loop test, and the timer of a sleep,
\* which the runtime fires. Nothing makes the proxy answer a request, and
\* lines 52-60 set neither a timeout nor an abort signal on it.
SpecFetchLive ==
    InitFetchOnly /\ [][NextFetch]_vars
      /\ WF_vars(FetchEnter) /\ WF_vars(Wake)

\* two calls in a row of one export operation
InitExportCallsOnly ==
    IdleFetch /\ IdleSearch /\ IdleDetail /\ IdleMetrics /\ InitExportCalls
        /\ IdleGet

NextExportCalls ==
    \/ ExportBuild \/ ExportWrite
    \/ ExportPreviewOk \/ ExportPreviewFail \/ ExportSearchStart
    \/ ExportMetadata
    \/ ExportAgain

SpecExportCalls == InitExportCallsOnly /\ [][NextExportCalls]_vars

\* one call of getArticles with every outcome of its page, detail, citation
\* and preview fetches. A page holds fewer records than BATCH_SIZE: the DOIs
\* of its articles make one batch, with no delay timer after it
InitGetOnly ==
    IdleFetch /\ InitGet /\ IdleDetail /\ IdleMetrics /\ IdleExport

NextGet ==
    \/ GetEnter \/ GetIssuePage \/ GetPageOk \/ GetPageFail \/ GetPageDone
    \/ GetPreviewIssue \/ GetReturn \/ GetPreviewFail
    \/ DetailStartBatch \/ DetailOk \/ DetailFail \/ DetailBatchDone
    \/ DetailEnrichStart \/ DetailReturn
    \/ EnrichQuality \/ CitationRequest \/ CitationThrows \/ CitationHeadOk
    \/ CitationHeadNotOk \/ CitationBody \/ CitationText \/ EnrichCitations

SpecGet == InitGetOnly /\ [][NextGet]_vars

\* one call of any operation of the scraper that fetches a first listing
\* page or a preview: search, searchPreview, fetchArticleDetails,
\* getArticles, exportSearch, searchArticles
InitCalls == InitCrawl \/ InitGetOnly \/ InitExportCallsOnly

NextCalls ==
    \/ SearchIssuePage1 \/ SearchPage1Ok \/ SearchPage1Fail \/ LaunchPage
    \/ PageOk \/ PageFail \/ AwaitAll \/ SearchBasic \/ SearchDetailsStart
    \/ SearchFullDetails \/ PreviewIssue \/ PreviewOk \/ PreviewFail
    \/ GetEnter \/ GetIssuePage \/ GetPageOk \/ GetPageFail \/ GetPageDone
    \/ GetPreviewIssue \/ GetReturn \/ GetPreviewFail
    \/ DetailStartBatch \/ DetailOk \/ DetailFail \/ DetailBatchDone
    \/ DetailEnrichStart \/ DetailReturn
    \/ EnrichQuality \/ CitationRequest \/ CitationThrows \/ CitationHeadOk
    \/ CitationHeadNotOk \/ CitationBody \/ CitationText \/ EnrichCitations
    \/ ExportBuild \/ ExportWrite
    \/ ExportPreviewOk \/ ExportPreviewFail \/ ExportSearchStart
    \/ ExportMetadata
    \/ ExportAgain

SpecCalls == InitCalls /\ [][NextCalls]_vars

\* one call of exportToRISFile or exportToBibTeXFile
InitExportOnly ==
    IdleFetch /\ IdleSearch /\ IdleDetail /\ IdleMetrics /\ InitExport
        /\ IdleGet

NextExport == ExportBuild \/ ExportWrite

SpecExport == InitExportOnly /\ [][NextExport]_vars

----------------------------------------------------------------------------
(* Claims about _fetchWithZyte, checked under SpecFetch                     *)

\* the page "<p>" as UTF-8 bytes, the body that answer "ok200" encodes
PageBytes == <<60, 112, 62>>

\* 1 s, 2 s, 4 s, 8 s, 16 s, then 30 s for every later retry
ExpectedBackoff(k) ==
    CASE k = 1 -> 1000 [] k = 2 -> 2000 [] k = 3 -> 4000
      [] k = 4 -> 8000 [] k = 5 -> 16000 [] OTHER -> 30000

OnlyAnswers(names) == \A i \in 1..Len(history) : history[i] \in names

IsOtherFailure(name) == name \in {"err500", "err503"}

\* C3: when the proxy answers 520 to the first two requests and succeeds on
\* the third, a call with a retry budget of at least 2 (the default is 3)
\* has surfaced no error after the first or second answer, and returns the
\* decoded body having issued exactly 3 requests.
C3_TwoBansThenSuccess ==
    (zyteApiKey /\ maxRetries >= 2) =>
        /\ (history \in {<<"ban520">>, <<"ban520", "ban520">>} =>
               fpc \in {"sleep", "request"} /\ fresult = NoResult)
        /\ ((Len(history) >= 3 /\
             SubSeq(history, 1, 3) = <<"ban520", "ban520", "ok200">>) =>
               /\ Len(history) = 3
               /\ \/ fpc = "body" /\ fresult = NoResult
                  \/ /\ fpc = "returned"
                     /\ fresult = [kind |-> "value", value |-> PageBytes])

C3_Witness ==
    /\ maxRetries = DefaultMaxRetries
    /\ history = <<"ban520", "ban520", "ok200">>
    /\ fpc = "returned"
    /\ sleeps = <<1000, 2000>>

\* C4: when the proxy answers 520 to every request, the call issues exactly
\* maxRetries + 1 requests (never one more), sleeps
\* min(1000 * 2^(k-1), 30000) ms before the k-th retry, does not fail before
\* the last request, and then throws an error whose message contains the
\* target URL.
C4_Persistent520 ==
    /\ Len(history) <= maxRetries + 1
    /\ (history # <<>> /\ OnlyAnswers({"ban520"})) =>
        /\ (fpc = "thrown") <=> (Len(history) = maxRetries + 1)
        /\ fpc # "returned"
        /\ Len(sleeps) = (IF Len(history) <= maxRetries
                          THEN Len(history) ELSE maxRetries)
        /\ \A k \in 1..Len(sleeps) : sleeps[k] = ExpectedBackoff(k)
        /\ fpc = "thrown" =>
               /\ fresult.kind = "error"
               /\ Includes(fresult.message, TargetUrl)

C4_Witness ==
    /\ maxRetries = 6
    /\ fpc = "thrown"
    /\ history = <<"ban520", "ban520", "ban520", "ban520", "ban520",
                   "ban520", "ban520">>
    /\ sleeps = <<1000, 2000, 4000, 8000, 16000, 30000>>

\* C5 as stated: a non-success answer other than 520 ends the call at once,
\* after that single request and without any sleep.
C5_NotRetried ==
    (history # <<>> /\ IsOtherFailure(history[1])) =>
        /\ fpc = "thrown"
        /\ Len(history) = 1
        /\ sleeps = <<>>

\* C5 amended: a non-success answer other than 520 received on attempt k is
\* handled by the catch block like any other error.  For k <= maxRetries the
\* call does not fail: it goes on to attempt k + 1, after a sleep of
\* min(1000 * 2^(k-1), 30000) ms unless the error message contains "520".
\* Only on attempt maxRetries + 1 does the call fail, naming the target URL.
C5_OtherFailureRetried ==
    LET k == Len(history) IN
    (k >= 1 /\ IsOtherFailure(history[k])) =>
        IF k <= maxRetries
        THEN /\ fpc \in {"sleep", "request"}
             /\ fresult = NoResult
             /\ (fpc = "sleep") <=> (history[k] = "err500" /\ attempt = k)
             /\ fpc = "request" => attempt = k + 1
             /\ history[k] = "err500" =>
                    (sleeps # <<>> /\ sleeps[Len(sleeps)] = ExpectedBackoff(k))
        ELSE /\ fpc = "thrown"
             /\ k = maxRetries + 1
             /\ fresult.kind = "error"
             /\ Includes(fresult.message, TargetUrl)

C5_Witness ==
    /\ maxRetries = DefaultMaxRetries
    /\ history = <<"err500", "err503", "err500", "err500">>
    /\ sleeps = <<1000, 4000>>
    /\ fpc = "thrown"

\* C6 as stated: a network error gets one retry cycle, so a second network
\* error surfaces and no third request is issued.
C6_OneRetryCycle ==
    (Len(history) >= 2 /\ history[1] = "netfail" /\ history[2] = "netfail") =>
        /\ fpc = "thrown"
        /\ Len(history) = 2

\* C6 amended: a network error (message without "520") on attempt k gets a
\* retry cycle for every k <= maxRetries: the call sleeps
\* min(1000 * 2^(k-1), 30000) ms and goes on to attempt k + 1.  The failure
\* surfaces only when attempt maxRetries + 1 fails, so up to maxRetries + 1
\* requests (4 by default) are issued.
C6_NetworkErrorRetried ==
    LET k == Len(history) IN
    (k >= 1 /\ history[k] = "netfail") =>
        IF k <= maxRetries
        THEN /\ fpc \in {"sleep", "request"}
             /\ fresult = NoResult
             /\ fpc = "sleep" => attempt = k
             /\ fpc = "request" => attempt = k + 1
             /\ sleeps # <<>>
             /\ sleeps[Len(sleeps)] = ExpectedBackoff(k)
        ELSE /\ fpc = "thrown"
             /\ k = maxRetries + 1
             /\ fresult.kind = "error"
             /\ Includes(fresult.message, TargetUrl)

C6_Witness ==
    /\ maxRetries = DefaultMaxRetries
    /\ history = <<"netfail", "netfail", "netfail", "netfail">>
    /\ sleeps = <<1000, 2000, 4000>>
    /\ fpc = "thrown"

----------------------------------------------------------------------------
(* Claims about the paginator and the detail enricher                      *)

\* the records the crawl may reach: those of the pages the page-count bound
\* allows
TotalAvailable ==
    IF max_pages > 0 THEN Min(totalItems, ItemsPerPage * max_pages)
    ELSE totalItems

\* a finished search with a result-count bound, full pages (every entry
\* yields a record) and no failed fetch
C1_Case ==
    /\ op = "search" /\ spc = "done"
    /\ max_results >= 1
    /\ noIdEntries = {} /\ failedPages = {}

\* min(R, totalAvailable) records from getListingsForTerm and from search,
\* at most ceil(R/30) page fetches, and the scenario of 3 pages of 30
C1_Counts ==
    /\ Len(returned) = Min(max_results, TotalAvailable)
    /\ Len(sresult.articles) = Min(max_results, TotalAvailable)
    /\ Len(fetched) <= CeilDiv(max_results, ItemsPerPage)
    /\ (totalItems = 90 /\ max_results = 45 /\ max_pages = 0
          => fetched = <<1, 2>> /\ Len(sresult.articles) = 45)

\* C1 as stated: with result-count bound R >= 1, pages of 30 records and no
\* failed fetch, getListingsForTerm and search return exactly
\* min(R, totalAvailable) records and fetch at most ceil(R/30) listing
\* pages; 3 pages of 30 with max_results = 45 give exactly 2 page fetches
\* and 45 records
C1_CountOnAnyPage ==
    C1_Case => C1_Counts

\* C1 amended: the counts of C1 hold when page 1 carries the pagination
\* summary the number of pages is read from; when it does not, page 1 is
\* the only page fetched and min(R, records of page 1) records are returned
C1_PaginatorCount ==
    C1_Case =>
        IF spanPresent THEN C1_Counts
        ELSE /\ fetched = <<1>>
             /\ Len(returned) = Min(max_results, Min(totalItems, ItemsPerPage))
             /\ Len(sresult.articles) = Len(returned)

C1_Witness ==
    /\ C1_Case /\ spanPresent
    /\ totalItems = 90 /\ max_results = 45 /\ max_pages = 0
    /\ fetched = <<1, 2>>
    /\ Len(returned) = 45 /\ Len(sresult.articles) = 45

\* C2: at every moment the number of page fetches, and of detail fetches,
\* started and not yet completed is at most the worker limit
C2_BoundedInFlight ==
    /\ Cardinality(inFlight) <= Workers(maxWorkers)
    /\ Cardinality(dInFlight) <= Workers(workersArg)

C2_Witness ==
    /\ spc = "await" /\ maxWorkers = 2
    /\ Cardinality(inFlight) = 2
    /\ page < totalPages

\* a finished call whose first fetch failed
FirstFetchFailed(name) == op = name /\ spc = "done" /\ 1 \in failedPages

\* a finished call of searchPreview, getArticles or searchArticles whose
\* preview fetch threw
PreviewFetchFailed(name) ==
    /\ fresult.kind = "error"
    /\ CASE name = "searchPreview" -> op = name /\ spc = "done"
         [] name = "getArticles" -> op = name /\ gpc = "done"
         [] name = "searchArticles" -> eOp = name /\ epc = "done"

\* C7 as stated: a failed fetch of listing page 1 makes search() end with an
\* error, and a failed preview fetch makes searchPreview(), getArticles()
\* and searchArticles() end with an error
C7_FirstPageFatal ==
    /\ FirstFetchFailed("search") => sresult.kind = "error"
    /\ PreviewFetchFailed("searchPreview") => sresult.kind = "error"
    /\ PreviewFetchFailed("getArticles") => gResult.kind = "error"
    /\ PreviewFetchFailed("searchArticles") => xResult.kind = "error"

\* C7 amended: a failed fetch of listing page 1 is absorbed -- search()
\* fetches nothing more and returns a result with no articles and
\* total_found 0; only a failed preview fetch is fatal, searchPreview(),
\* getArticles() and searchArticles() ending with the error
\* "Preview search failed: " followed by the message of the fetch error
C7_FirstPageAbsorbed ==
    /\ FirstFetchFailed("search") =>
          /\ sresult.kind = "value"
          /\ sresult.articles = <<>>
          /\ sresult.total_found = 0
          /\ fetched = <<1>>
    /\ PreviewFetchFailed("searchPreview") =>
          /\ fresult.message \in FetchErrorMessages(PreviewUrl)
          /\ sresult = [kind |-> "error",
                        message |-> TextPreviewFailed \o fresult.message]
    /\ PreviewFetchFailed("getArticles") =>
          /\ fresult.message \in FetchErrorMessages(PreviewUrl)
          /\ gResult = [kind |-> "error",
                        message |-> TextPreviewFailed \o fresult.message]
    /\ PreviewFetchFailed("searchArticles") =>
          /\ fresult.message \in FetchErrorMessages(PreviewUrl)
          /\ xResult = [kind |-> "error",
                        message |-> TextPreviewFailed \o fresult.message]

C7_Witness ==
    /\ FirstFetchFailed("search")
    /\ totalItems = 90
    /\ sresult.kind = "value" /\ sresult.articles = <<>>

\* the records of the pages fetched with success, in the order of the portal
SurvivingRecords ==
    SelectSeq([i \in 1..totalItems |-> i - 1],
              LAMBDA pos :
                  /\ \E i \in 1..Len(fetched) :
                        fetched[i] = (pos \div ItemsPerPage) + 1
                  /\ (pos \div ItemsPerPage) + 1 \notin failedPages
                  /\ pos \notin noIdEntries)

\* C8: when the fetch of a page k >= 2 fails, the page contributes nothing
\* and the crawl goes on: no error, every page up to the last is fetched
\* unless the result-count bound is met, and the records of page 1 and of
\* every page fetched with success are returned, up to the bound
C8_FailedPageSkipped ==
    (op = "search" /\ spc \in {"listed", "done"} /\ 1 \notin failedPages) =>
        /\ sresult.kind # "error"
        /\ \/ Len(fetched) = (IF totalPages > 1 THEN totalPages ELSE 1)
           \/ EnoughResults(Len(SurvivingRecords), max_results)
        /\ returned = (IF EnoughResults(Len(SurvivingRecords), max_results)
                       THEN SliceTo(SurvivingRecords, max_results)
                       ELSE SurvivingRecords)

C8_Witness ==
    /\ op = "search" /\ spc = "done"
    /\ failedPages = {2}
    /\ fetched = <<1, 2, 3>>
    /\ Len(returned) = 60
    /\ returned[31] = 60

\* the title extracted for the record of a position
TitleOf(pos) == <<"A","r","t","i","c","l","e"," ">> \o NumberToString(pos)

\* C9: a record without article identifier gets no detail fetch and never
\* appears in what fetchArticleDetails collects, and a listing entry without
\* extractable identifier is dropped by the extraction without an error
C9_NoIdDropped ==
    /\ \A i \in 1..Len(dFetches) : articleListings[dFetches[i]].id = "set"
    /\ \A k \in 1..Len(articles) :
          /\ Has(articles[k], "article_id")
          /\ articles[k].vals.article_id # <<>>
          /\ \E j \in 1..Len(articleListings) :
                /\ articleListings[j].id = "set"
                /\ articles[k].vals.title = TitleOf(articleListings[j].entry)
    /\ dpc = "done" =>
          Len(articles) = Cardinality({j \in 1..Len(articleListings) :
                                          articleListings[j].id = "set"})
    /\ \A p \in DOMAIN pageResult :
          \A i \in 1..Len(pageResult[p]) : pageResult[p][i] \notin noIdEntries
    /\ op = "search" => sresult.kind # "error"

C9_Witness ==
    /\ dpc = "done"
    /\ Len(articleListings) = 3
    /\ articleListings[1].id = "unset"
    /\ articleListings[2].id = "set"
    /\ articleListings[3].id = "empty"
    /\ dFetches = <<2>>
    /\ Len(articles) = 1
    /\ PortalEntry(articleListings[2].entry, TRUE).documentType
         = Some(<<" ","A","r","t","i","g","o"," ">>)
    /\ articles[1].vals.document_type = <<"A","r","t","i","g","o">>

\* the article of the record at index j is among the collected ones
Collected(j) ==
    \E k \in 1..Len(articles) :
        articles[k].vals.title = TitleOf(articleListings[j].entry)

\* C10 as stated: a record whose detail fetch or parse failed is absent from
\* the list fetchArticleDetails returns
C10_FailedDetailDropped ==
    dpc = "done" => \A j \in dFailed : ~Collected(j)

\* the article at index k is built from the fields of the record at index j
\* alone: its listing fields, no author, both flags false, nothing else
ListingOnly(k, j) ==
    LET a == articles[k]
        listing == ListingAt(j)
        copied == {"title", "article_id", "detail_url", "journal",
                   "publisher", "document_type"}
    IN  /\ a.keys = copied \cup {"search_term", "authors", "is_open_access",
                                 "is_peer_reviewed"}
        /\ DOMAIN a.vals = {f \in copied : Has(listing, f)}
                             \cup {"search_term", "authors", "is_open_access",
                                   "is_peer_reviewed"}
        /\ \A f \in copied : Has(listing, f) => a.vals[f] = listing.vals[f]
        /\ a.vals.search_term = listing.vals.theme
        /\ a.vals.authors = <<>>
        /\ a.vals.is_open_access = FALSE
        /\ a.vals.is_peer_reviewed = FALSE

\* C10 amended: a record whose detail fetch or parse failed is not dropped --
\* fetchArticleDetails returns for it an article built from its listing
\* fields alone, with no authors and both flags false; only records without
\* identifier are absent
C10_FailedDetailKept ==
    dpc = "done" =>
        /\ \A j \in dFailed : \E k \in 1..Len(articles) : ListingOnly(k, j)
        /\ Len(articles) = Cardinality({j \in 1..Len(articleListings) :
                                           articleListings[j].id = "set"})

C10_Witness ==
    /\ dpc = "done"
    /\ articleListings # <<>> /\ articleListings[1].id = "set"
    /\ 1 \in dFailed
    /\ Len(articles) >= 1
    /\ ListingOnly(1, 1)

----------------------------------------------------------------------------
(* Claims about the merge of listing and detail fields                     *)

\* the records of a finished fetchArticleDetails whose detail page was
\* fetched and parsed
Enriched ==
    {j \in 1..Len(articleListings) :
        articleListings[j].id = "set" /\ j \notin dFailed}

\* the article collected for the record at index j
ArticleFor(j) ==
    articles[CHOOSE k \in 1..Len(articles) :
                articles[k].vals.title = TitleOf(articleListings[j].entry)]

\* what the detail page of the record at index j yields
DetailsFor(j) ==
    ScrapeArticleDetail(DetailUrlOf(ArticleIdText(ListingAt(j))),
                        DetailPage(articleListings[j].entry))

\* the listing supplies a value for the field and the detail page none:
\* no text for a text field, no marker for a flag
ListingOnlyValue(j, f) ==
    IF f \in {"is_open_access", "is_peer_reviewed"}
    THEN ListingAt(j).vals[f] /\ ~DetailsFor(j).vals[f]
    ELSE Has(ListingAt(j), f) /\ ~Has(DetailsFor(j), f)

\* C11 as stated: when the detail page yields no value for publisher,
\* journal, document type or one of the two flags and the listing supplied
\* one, the article returned by fetchArticleDetails keeps the listing's value
C11_ListingValueKept ==
    dpc = "done" =>
        \A j \in Enriched :
            \A f \in {"publisher", "journal", "document_type",
                      "is_open_access", "is_peer_reviewed"} :
                ListingOnlyValue(j, f) =>
                    /\ Has(ArticleFor(j), f)
                    /\ ArticleFor(j).vals[f] = ListingAt(j).vals[f]

\* the listing's publisher and open-access flag are lost on a detail page
\* that has neither
C11_Witness ==
    /\ dpc = "done" /\ 3 \in Enriched
    /\ ListingOnlyValue(3, "publisher")
    /\ ListingOnlyValue(3, "is_open_access")
    /\ ~Has(ArticleFor(3), "publisher")
    /\ ArticleFor(3).vals.is_open_access = FALSE
    /\ ArticleFor(3).vals.document_type = ListingAt(3).vals.document_type

\* both the listing and the detail page yield a value for the field
BothYield(j, f) == Has(ListingAt(j), f) /\ Has(DetailsFor(j), f)

\* C12: for publisher, authors, detail URL and the two flags, when the
\* listing and the detail page both yield a value the article returned by
\* fetchArticleDetails carries the value of the detail page
C12_DetailValueWins ==
    dpc = "done" =>
        \A j \in Enriched :
            \A f \in {"publisher", "authors", "detail_url",
                      "is_open_access", "is_peer_reviewed"} :
                BothYield(j, f) =>
                    /\ Has(ArticleFor(j), f)
                    /\ ArticleFor(j).vals[f] = DetailsFor(j).vals[f]

C12_Witness ==
    /\ dpc = "done" /\ 1 \in Enriched
    /\ \A f \in {"publisher", "authors", "detail_url"} :
          /\ BothYield(1, f)
          /\ ListingAt(1).vals[f] # DetailsFor(1).vals[f]
          /\ ArticleFor(1).vals[f] = DetailsFor(1).vals[f]

----------------------------------------------------------------------------
(* Claims about enrichWithMetrics                                          *)

\* the citation pass applies metrics to article i: the service answered for
\* its DOI
CitationApplied(i) ==
    /\ DoiOf(i) # None
    /\ DoiOf(i)[1] \in DOMAIN mResults

CitationFields ==
    {"cited_by_count", "fwci", "publication_year", "is_open_access",
     "open_access_oa_date"}

\* the citation fields of article i are those the service returned for it
CitationFieldsFromService(i) ==
    LET answered == ParseOpenAlexWork(WorkOf(i))
    IN  /\ (DOMAIN mMetrics[i].vals) \cap CitationFields = DOMAIN answered.vals
        /\ \A f \in DOMAIN answered.vals :
              mMetrics[i].vals[f] = answered.vals[f]

\* C13: when the quality pass set metrics.qualis of an article and the
\* citation pass then applies citation metrics for its DOI, metrics.qualis
\* after the merge is what the quality pass set and the citation fields are
\* those the citation service returned
C13_QualisPreserved ==
    mpc = "done" =>
        \A i \in 1..Len(mArticles) :
            (QualityPass(i) # None /\ CitationApplied(i)) =>
                /\ i \in DOMAIN mMetrics
                /\ Has(mMetrics[i], "qualis")
                /\ mMetrics[i].vals.qualis = QualityPass(i)[1].vals.qualis
                /\ CitationFieldsFromService(i)

C13_Witness ==
    /\ mpc = "done" /\ Len(mArticles) = 1
    /\ mArticles[1] = [issn |-> "bare", doi |-> "indexed"]
    /\ CitationApplied(1)
    /\ mMetrics[1].vals.qualis =
           [classification |-> <<"B","2">>, area |-> <<"E","D","U">>]
    /\ mMetrics[1].vals.cited_by_count = 1
    /\ mMetrics[1].vals.fwci = 2

\* the number of the citation batch that carries the DOI of article i
BatchOf(withDoi, i) ==
    LET n == CHOOSE m \in 1..Len(withDoi) : withDoi[m] = i
    IN  ((n - 1) \div BATCH_SIZE) + 1

\* C14: a citation batch that fails (non-success status or thrown error)
\* aborts that batch only -- the call completes, every article whose DOI was
\* answered in another batch has its citation metrics, and the Qualis data
\* of the quality pass stays on every article that had it
C14_BatchFailureContained ==
    /\ (mpc = "batches" /\ mNext >= Len(ArticlesWithDOI)) =>
          Len(mOutcomes) = CeilDiv(Len(ArticlesWithDOI), BATCH_SIZE)
    /\ mpc = "done" =>
          LET withDoi == ArticlesWithDOI
          IN
          \A i \in 1..Len(mArticles) :
              /\ (mArticles[i].doi = "indexed"
                  /\ mOutcomes[BatchOf(withDoi, i)] = "ok") =>
                    /\ i \in DOMAIN mMetrics
                    /\ CitationFieldsFromService(i)
              /\ QualityPass(i) # None =>
                    /\ i \in DOMAIN mMetrics
                    /\ Has(mMetrics[i], "qualis")
                    /\ mMetrics[i].vals.qualis
                         = QualityPass(i)[1].vals.qualis

C14_Witness ==
    /\ mpc = "done"
    /\ Len(mArticles) = 52
    /\ mOutcomes = <<"ok", "throws">>
    /\ mArticles[52] = [issn |-> "listed", doi |-> "indexed"]
    /\ mMetrics[1].vals.cited_by_count = 1
    /\ mMetrics[52].vals.cited_by_count = 0
    /\ "fwci" \notin DOMAIN mMetrics[52].vals
    /\ Has(mMetrics[52], "qualis")

----------------------------------------------------------------------------
(* Claims about the exporter                                               *)

\* an article of the input has a title: it is set and not empty
HasTitle(sketch) == sketch.title # None /\ sketch.title # Some(<<>>)

Exported == epc \in {"content", "done"}

\* C15: exportToRIS and exportToBibTeX emit one record for each article
\* that has a title and none for an article without one: the number of
\* records is the length of the input minus the number of title-less
\* articles, and the records are those of the titled articles in input order.
C15_RecordPerTitled ==
    Exported =>
        LET titled == SelectSeq(eArticles, HasTitle)
            titleless == {i \in 1..Len(eArticles) : ~HasTitle(eArticles[i])}
        IN  /\ Len(eRecords) = Len(eArticles) - Cardinality(titleless)
            /\ Len(eRecords) = Len(titled)
            /\ \A k \in 1..Len(titled) :
                  eRecords[k]
                    = ConvertArticle(SketchArticle(titled[k]), eFormat)[1]

C15_Witness ==
    /\ epc = "content"
    /\ eFormat = "ris"
    /\ Len(eArticles) = 3
    /\ HasTitle(eArticles[1]) /\ eArticles[1].rest = "none"
    /\ eArticles[2].title = None
    /\ HasTitle(eArticles[3]) /\ eArticles[3].rest = "all"
    /\ Len(eRecords) = 2
    /\ Len(eRecords[1]) < Len(eRecords[2])

\* the positions of the CR LF pairs of a text
Breaks(s) == {i \in 1..(Len(s) - 1) : s[i] = "\r" /\ s[i + 1] = "\n"}

NthBreak(s, k) ==
    CHOOSE i \in Breaks(s) : Cardinality({j \in Breaks(s) : j < i}) = k - 1

\* the lines of a RIS record, which are separated by CR LF
RecordLines(s) ==
    LET n == Cardinality(Breaks(s))
    IN  [k \in 1..(n + 1) |->
            SubSeq(s,
                   IF k = 1 THEN 1 ELSE NthBreak(s, k - 1) + 2,
                   IF k = n + 1 THEN Len(s) ELSE NthBreak(s, k) - 1)]

\* the tags of RIS in the order of emission
TagOrder ==
    <<<<"T","Y">>, <<"T","I">>, <<"A","U">>, <<"P","Y">>, <<"T","2">>, <<"J","F">>, <<"V","L">>, <<"I","S">>, <<"A","B">>, <<"D","O">>, <<"S","N">>,
      <<"P","B">>, <<"L","A">>, <<"U","R">>, <<"K","W">>, <<"N","1">>, <<"E","R">>>>

\* a line of the form `XX  - value` with a tag of RIS
IsTagLine(line) ==
    /\ Len(line) >= 6
    /\ SubSeq(line, 3, 6) = <<" "," ","-"," ">>
    /\ \E r \in 1..Len(TagOrder) : TagOrder[r] = SubSeq(line, 1, 2)

TagOf(line) == SubSeq(line, 1, 2)

ValueOf(line) == SubSeq(line, 7, Len(line))

Rank(tag) == CHOOSE r \in 1..Len(TagOrder) : TagOrder[r] = tag

\* the tag lines of a record, in order
TagLines(record) == SelectSeq(RecordLines(record), IsTagLine)

\* what C16 says of one record
WellFormedRecord(record) ==
    LET lines == RecordLines(record)
        tagged == TagLines(record)
    IN  /\ IsTagLine(lines[1]) /\ TagOf(lines[1]) = <<"T","Y">>
        /\ IsTagLine(lines[Len(lines)]) /\ TagOf(lines[Len(lines)]) = <<"E","R">>
        /\ Cardinality({k \in 1..Len(tagged) : TagOf(tagged[k]) = <<"T","I">>}) = 1
        /\ \A k \in 1..(Len(tagged) - 1) :
              \/ Rank(TagOf(tagged[k])) < Rank(TagOf(tagged[k + 1]))
              \/ TagOf(tagged[k]) = <<"A","U">> /\ TagOf(tagged[k + 1]) = <<"A","U">>

\* C16: every record of exportToRIS starts with a TY line, ends with an ER
\* line, has exactly one TI line and lists its tags in the order TY, TI, AU*,
\* PY, T2, JF, VL, IS, AB, DO, SN, PB, LA, UR, KW, N1, ER.
C16_RecordWellFormed ==
    (Exported /\ eFormat = "ris") =>
        \A k \in 1..Len(eRecords) : WellFormedRecord(eRecords[k])

\* a title that holds a line break and the text of a TI line is emitted as
\* two TI lines
C16_Witness ==
    /\ epc = "content"
    /\ eFormat = "ris"
    /\ Len(eArticles) = 1
    /\ eArticles[1].title = Some(<<"A","\r","\n","T","I"," "," ","-"," ","B">>)
    /\ Len(eRecords) = 1
    /\ Cardinality({k \in 1..Len(TagLines(eRecords[1])) :
                       TagOf(TagLines(eRecords[1])[k]) = <<"T","I">>}) = 2

\* the values of the lines of a tag, in order
ValuesOfTag(record, tag) ==
    LET of == SelectSeq(TagLines(record), LAMBDA line : TagOf(line) = tag)
    IN  [k \in 1..Len(of) |-> ValueOf(of[k])]

\* the title, the authors and the year read back from a record
ParseRecord(record) ==
    [title |-> ValuesOfTag(record, <<"T","I">>)[1],
     authors |-> ValuesOfTag(record, <<"A","U">>),
     year |-> ValuesOfTag(record, <<"P","Y">>)]

\* the title, the authors and the year of an article
TitleAuthorsYear(article) ==
    [title |-> article.vals.title,
     authors |-> IF Has(article, "authors") THEN article.vals.authors
                 ELSE <<>>,
     year |-> LET y == ExtractYear(IF Has(article, "publication_date")
                                   THEN article.vals.publication_date
                                   ELSE <<>>)
              IN  IF y = None THEN <<>> ELSE <<y[1]>>]

\* C17: for every article with a title, reading the lines of its RIS record
\* back by their tags gives the article's title, its authors in the same
\* order, and its year.
C17_RoundTrip ==
    (Exported /\ eFormat = "ris" /\ Len(eArticles) = 1
       /\ HasTitle(eArticles[1])) =>
        ParseRecord(eRecords[1])
          = TitleAuthorsYear(SketchArticle(eArticles[1]))

\* a title of two lines is read back as its first line
C17_Witness ==
    /\ epc = "content"
    /\ eFormat = "ris"
    /\ Len(eArticles) = 1
    /\ eArticles[1].title = Some(<<"D","e","e","p","\r","\n","N","e","t","s">>)
    /\ eArticles[1].authors = Some(<<<<"A","n","a"," ","L","i","m","a">>, <<"B","o"," ","&"," ","C","o">>>>)
    /\ eArticles[1].publication_date = Some(<<"M","a","y"," ","1","9","9","9">>)
    /\ ParseRecord(eRecords[1])
         = [title |-> <<"D","e","e","p">>, authors |-> <<<<"A","n","a"," ","L","i","m","a">>, <<"B","o"," ","&"," ","C","o">>>>,
            year |-> <<<<"1","9","9","9">>>>]

\* the type the table of the exporter gives a document type
TableType(document_type) ==
    CASE document_type = Some(TextArtigo) -> <<"J","O","U","R">>
      [] document_type = Some(TextCapitulo) -> <<"C","H","A","P">>
      [] document_type = Some(TextCarta) -> <<"N","E","W","S">>
      [] document_type = Some(TextErrata) -> <<"J","O","U","R">>
      [] document_type = Some(TextRevisao) -> <<"J","O","U","R">>
      [] OTHER -> <<"J","O","U","R">>

\* C18: the first line of a record of exportToRIS is `TY  - ` followed by
\* the type the table gives the article's document type (Artigo JOUR,
\* Capitulo de livro CHAP, Carta NEWS, Errata JOUR, Revisao JOUR), and
\* JOUR when the document type is absent or not in the table.
C18_TypeFromTable ==
    (Exported /\ eFormat = "ris" /\ Len(eArticles) = 1
       /\ HasTitle(eArticles[1])) =>
        RecordLines(eRecords[1])[1]
          = <<"T","Y"," "," ","-"," ">> \o TableType(eArticles[1].document_type)

\* the document type `constructor` is not in the table and is not
\* emitted as JOUR
C18_Witness ==
    /\ epc = "content"
    /\ eFormat = "ris"
    /\ Len(eArticles) = 1
    /\ eArticles[1].document_type = Some(<<"c","o","n","s","t","r","u","c","t","o","r">>)
    /\ HasTitle(eArticles[1])
    /\ RecordLines(eRecords[1])[1]
         = <<"T","Y"," "," ","-"," ","f","u","n","c","t","i","o","n"," ","O","b","j","e","c","t","(",")"," ","{"," ","[","n","a","t","i","v","e"," ","c","o","d","e","]"," ","}">>

\* the field lines of a BibTeX entry: all but the `@type{key,` line and the
\* closing brace
FieldLines(lines) == SubSeq(lines, 2, Len(lines) - 1)

\* where ` = {` starts in a field line
AssignAt(line) ==
    CHOOSE i \in 1..Len(line) :
        /\ SubSeq(line, i, i + 3) = <<" ","="," ","{">>
        /\ \A j \in 1..(i - 1) : SubSeq(line, j, j + 3) # <<" ","="," ","{">>

\* the name and the value of the field line `  name = {value},`
FieldName(line) == SubSeq(line, 3, AssignAt(line) - 1)

FieldValue(line) == SubSeq(line, AssignAt(line) + 4, Len(line) - 2)

\* every special character of the value follows a backslash that escapes it
RECURSIVE WellEscaped(_)
WellEscaped(value) ==
    IF value = <<>> THEN TRUE
    ELSE IF Head(value) = "\\"
    THEN /\ Len(value) >= 2
         /\ \E n \in 1..Len(LatexSpecials) : LatexSpecials[n] = value[2]
         /\ WellEscaped(SubSeq(value, 3, Len(value)))
    ELSE /\ \A n \in 1..Len(LatexSpecials) : LatexSpecials[n] # Head(value)
         /\ WellEscaped(Tail(value))

EscapedFields ==
    {<<"t","i","t","l","e">>, <<"a","u","t","h","o","r">>, <<"j","o","u","r","n","a","l">>, <<"v","o","l","u","m","e">>, <<"n","u","m","b","e","r">>, <<"a","b","s","t","r","a","c","t">>,
     <<"p","u","b","l","i","s","h","e","r">>, <<"l","a","n","g","u","a","g","e">>, <<"n","o","t","e">>}

VerbatimFields == {<<"d","o","i">>, <<"u","r","l">>}

\* one titled article has been converted to BibTeX
OneBibEntry ==
    /\ Exported
    /\ eFormat = "bibtex"
    /\ Len(eArticles) = 1
    /\ HasTitle(eArticles[1])

\* the lines of the entry of the one article, which make up the record
EntryLines == BibLines(SketchArticle(eArticles[1]))

\* C19 as stated: every field value of an entry of convertArticleToBibTeX
\* (title, author, journal, volume, number, abstract, doi, url, publisher,
\* language, note) has each LaTeX special character escaped by a backslash.
C19_AllFieldsEscaped ==
    OneBibEntry =>
        /\ eRecords[1] = Join(EntryLines, <<"\n">>)
        /\ \A k \in 1..Len(FieldLines(EntryLines)) :
              LET line == FieldLines(EntryLines)[k]
              IN  FieldName(line) \in EscapedFields \cup VerbatimFields
                    => WellEscaped(FieldValue(line))

\* C19: the values of title, author, journal, volume, number, abstract,
\* publisher, language and note have each LaTeX special character escaped
\* by a backslash; the values of doi and url are the article's doi and
\* detail_url as they are.
C19_EscapedButDoiUrl ==
    OneBibEntry =>
        /\ eRecords[1] = Join(EntryLines, <<"\n">>)
        /\ \A k \in 1..Len(FieldLines(EntryLines)) :
              LET line == FieldLines(EntryLines)[k]
                  article == SketchArticle(eArticles[1])
              IN  /\ FieldName(line) \in EscapedFields
                        => WellEscaped(FieldValue(line))
                  /\ FieldName(line) = <<"d","o","i">>
                        => FieldValue(line) = article.vals.doi
                  /\ FieldName(line) = <<"u","r","l">>
                        => FieldValue(line) = article.vals.detail_url

C19_Witness ==
    /\ OneBibEntry
    /\ eArticles[1].title = Some(<<"O","n"," ","$","5"," ","#","1"," ","1","0","0","%"," ","a","\\","b">>)
    /\ eArticles[1].rest = "all"
    /\ \E k \in 1..Len(FieldLines(EntryLines)) :
          /\ FieldName(FieldLines(EntryLines)[k]) = <<"t","i","t","l","e">>
          /\ FieldValue(FieldLines(EntryLines)[k]) = <<"O","n"," ","\\","$","5"," ","\\","#","1"," ","1","0","0","\\","%"," ","a","\\","\\","b">>
    /\ \E k \in 1..Len(FieldLines(EntryLines)) :
          /\ FieldName(FieldLines(EntryLines)[k]) = <<"u","r","l">>
          /\ ~WellEscaped(FieldValue(FieldLines(EntryLines)[k]))

\* C20: the article_count that exportToRISFile and exportToBibTeXFile
\* report is the number of records written to the file.
C20_CountIsRecordsWritten ==
    epc = "done" =>
        /\ eResult.file_path \in DOMAIN fsFiles
        /\ fsFiles[eResult.file_path] = ExportContent(eRecords)
        /\ eResult.article_count = Len(eRecords)

\* a list of a titled and a title-less article: one record is written and
\* two are reported
C20_Witness ==
    /\ epc = "done"
    /\ Len(eArticles) = 2
    /\ HasTitle(eArticles[1])
    /\ ~HasTitle(eArticles[2])
    /\ fsFiles[eResult.file_path] = ExportContent(eRecords)
    /\ Len(eRecords) = 1
    /\ eResult.article_count = 2

----------------------------------------------------------------------------
(* Claims about batches and order                                          *)

\* the indices of the batch of fetchArticleDetails that starts after
\* batchStart records
DetailWindow ==
    {j \in 1..Len(articleListings) :
        batchStart < j /\ j <= batchStart + Workers(workersArg)}

\* every pending fetch belongs to the batch being built or awaited, or is
\* the fetch of page 1, which precedes the batches
PendingInBatch ==
    /\ inFlight \subseteq {pagePromises[i] : i \in 1..Len(pagePromises)}
                            \cup (IF spc \in {"page1", "preview"}
                                  THEN {1} ELSE {})
    /\ dInFlight \subseteq DetailWindow

\* a step that starts the first fetch of a batch, or appends results, is
\* taken with no fetch pending; the records of page 1, which is fetched
\* alone, are appended by the step that ends its fetch
BarrierStep ==
    /\ (fetched' # fetched /\ pagePromises = <<>>) => inFlight = {}
    /\ dFetches' # dFetches => dInFlight = {}
    /\ listings' # listings =>
          inFlight = (IF spc = "page1" THEN {1} ELSE {}) /\ inFlight' = {}
    /\ articles' # articles => dInFlight = {}

\* C25: in getListingsForTerm and fetchArticleDetails no fetch of a batch
\* is started while a fetch of the batch before it is pending, and results
\* are appended to the accumulated list only when no fetch of the batch is
\* pending.
C25_AwaitAllBarrier == []PendingInBatch /\ [][BarrierStep]_vars

\* the second batch of detail fetches is pending and the first batch's
\* articles have been appended
C25_Witness ==
    /\ dpc = "await"
    /\ Len(articleListings) = 3 /\ workersArg = 2
    /\ batchStart = 2
    /\ dInFlight = {3}
    /\ dFetches = <<1, 2, 3>>
    /\ Len(articles) = 2

\* T: the number of pages the pagination summary of page 1 announces
AnnouncedPages ==
    IF spanPresent THEN CeilDiv(totalItems, ItemsPerPage) ELSE 0

\* the last page to fetch: max(1, min(T, max_pages if set,
\* ceil(max_results / 30) if set))
LastPage ==
    LET byPages == IF max_pages > 0 THEN {max_pages} ELSE {}
        byResults == IF max_results > 0
                     THEN {CeilDiv(max_results, ItemsPerPage)} ELSE {}
        bounds == {AnnouncedPages} \cup byPages \cup byResults
        least == CHOOSE b \in bounds : \A c \in bounds : b <= c
    IN  IF least > 1 THEN least ELSE 1

\* getListingsForTerm has returned and its fetch of page 1 had succeeded
ListedAfterPage1 ==
    /\ op = "search" /\ spc \in {"listed", "done"}
    /\ 1 \notin failedPages

\* C26: once page 1 was fetched, the listing pages getListingsForTerm
\* fetches are exactly pages 1..max(1, min(T, max_pages if set,
\* ceil(max_results/30) if set)), in this order; without pagination summary
\* only page 1 is fetched and its records are returned without error.
C26_PagesFetched ==
    ListedAfterPage1 =>
        /\ fetched = [p \in 1..LastPage |-> p]
        /\ ~spanPresent =>
              /\ fetched = <<1>>
              /\ returned = (IF max_results > 0
                             THEN SliceTo(ExtractBasicArticleInfo(1),
                                          max_results)
                             ELSE ExtractBasicArticleInfo(1))
              /\ (spc = "done" => sresult.kind = "value")

\* 105 results are announced and both bounds are set: max_pages = 2 wins
\* over the 3 pages of max_results = 61
C26_Witness ==
    /\ ListedAfterPage1
    /\ spanPresent /\ totalItems = 105
    /\ max_pages = 2 /\ max_results = 61
    /\ fetched = <<1, 2>>
    /\ Len(returned) = 60

\* the listing page of the record at a position of the portal's result list
PageOfRecord(pos) == (pos \div ItemsPerPage) + 1

\* the indices of the input records that have an identifier, in input order
SurvivingListings ==
    SelectSeq([j \in 1..Len(articleListings) |-> j],
              LAMBDA j : articleListings[j].id = "set")

\* C28: the records getListingsForTerm returns are in ascending page order,
\* and within a page in the order of the page; the articles
\* fetchArticleDetails returns are those of the input records that have an
\* identifier, once each and in input order, whatever order the fetches of a
\* batch complete in.
C28_OrderKept ==
    /\ (op = "search" /\ spc \in {"listed", "done"}) =>
          \A i, j \in 1..Len(returned) :
              i < j => /\ PageOfRecord(returned[i]) <= PageOfRecord(returned[j])
                       /\ returned[i] < returned[j]
    /\ dpc = "done" =>
          /\ Len(articles) = Len(SurvivingListings)
          /\ \A k \in 1..Len(articles) :
                articles[k].vals.title
                  = TitleOf(articleListings[SurvivingListings[k]].entry)

\* three records in two batches, the second without identifier: the
\* articles of the first and the third are returned, in this order
C28_Witness ==
    /\ dpc = "done"
    /\ Len(articleListings) = 3 /\ workersArg = 2
    /\ articleListings[1].id = "set"
    /\ articleListings[2].id = "unset"
    /\ articleListings[3].id = "set"
    /\ dFailed = {1}
    /\ Len(articles) = 2
    /\ articles[1].vals.title = TitleOf(0)
    /\ articles[2].vals.title = TitleOf(2)

----------------------------------------------------------------------------
(* Claims about the citation requests                                      *)

\* the DOIs handed to getMetricsByDOIs, as the indices of their articles
RequestedDois == ArticlesWithDOI

\* the requests sent so far, one after the other
RECURSIVE Concatenated(_)
Concatenated(batches) ==
    IF batches = <<>> THEN <<>>
    ELSE Head(batches) \o Concatenated(Tail(batches))

\* C27: getMetricsByDOIs over n DOIs sends exactly ceil(n/50) requests, one
\* at a time, each with at most 50 DOIs, every DOI in exactly one request
\* and in input order, and waits 100 ms after every request but the last.
C27_SequentialBatches ==
    /\ Cardinality(mInFlight) <= 1
    /\ mpc = "batches" => mInFlight = {}
    /\ \A r \in 1..Len(mRequests) :
          Len(mRequests[r]) >= 1 /\ Len(mRequests[r]) <= 50
    /\ \E k \in 0..Len(RequestedDois) :
          Concatenated(mRequests) = SubSeq(RequestedDois, 1, k)
    /\ \A d \in 1..Len(mSleeps) :
          /\ mSleeps[d] = [after |-> d, ms |-> 100]
          /\ d < CeilDiv(Len(RequestedDois), 50)
    /\ mpc = "done" =>
          /\ Len(mRequests) = CeilDiv(Len(RequestedDois), 50)
          /\ Concatenated(mRequests) = RequestedDois
          /\ Len(mSleeps)
               = (IF Len(mRequests) = 0 THEN 0 ELSE Len(mRequests) - 1)

\* 51 DOIs: a request of 50, one delay, a request of 1 and no delay after it
C27_Witness ==
    /\ mpc = "done"
    /\ Len(RequestedDois) = 51
    /\ Len(mRequests) = 2
    /\ Len(mRequests[1]) = 50 /\ Len(mRequests[2]) = 1
    /\ mSleeps = <<[after |-> 1, ms |-> 100]>>

----------------------------------------------------------------------------
(* Claims about the fields of a detail page                                *)

\* the fields scrapeArticleDetail reads from elements of the detail page
ScrapedFields ==
    {"abstract", "issn", "publisher", "publication_date", "volume", "issue",
     "language", "doi"}

\* the detail page of the entry at a position lacks the elements, or has
\* them without content
LacksElements(pos) == pos % 4 \in {2, 3}

\* an article has none of the scraped fields
NoScrapedField(article) == \A f \in ScrapedFields : ~Has(article, f)

\* no text field of an article is the empty string
NoEmptyText(article) ==
    \A f \in ScrapedFields : Has(article, f) => article.vals[f] # <<>>

\* the index of the input record the article at index k was built from
RecordOf(k) ==
    CHOOSE j \in 1..Len(articleListings) :
        articles[k].vals.title = TitleOf(articleListings[j].entry)

\* C24: for a detail page that lacks the ISSN element, and likewise the
\* abstract, publisher, year, volume, issue, language or DOI element,
\* scrapeArticleDetail and fetchArticleDetails end without error and the
\* article has the field absent: never an empty string, never a value the
\* page does not hold.
C24_MissingFieldAbsent ==
    /\ \A k \in 1..Len(articles) :
          /\ NoEmptyText(articles[k])
          /\ (RecordOf(k) \notin dFailed
                /\ LacksElements(articleListings[RecordOf(k)].entry))
               => NoScrapedField(articles[k])
    /\ (op = "search" /\ spc = "done" /\ full_details) =>
          /\ sresult.kind = "value"
          /\ \A i \in 1..Len(sresult.articles) :
                /\ NoEmptyText(sresult.articles[i])
                /\ (RecordOf(i) \notin dFailed
                      /\ LacksElements(articleListings[RecordOf(i)].entry))
                     => NoScrapedField(sresult.articles[i])

\* the detail pages of the records at positions 1, 2 and 3 were fetched: the
\* first has every element, the second none, the third has elements without
\* content
C24_Witness ==
    /\ dpc = "done" /\ dFailed = {}
    /\ Len(articles) = 3
    /\ articleListings[1].entry = 1
    /\ Has(articles[1], "issn")
    /\ NoScrapedField(articles[2])
    /\ NoScrapedField(articles[3])

\* the citation key of a BibTeX entry: what stands between the first brace
\* and the comma that ends the first line
KeyOfEntry(record) ==
    LET brace == CHOOSE i \in 1..Len(record) :
                    record[i] = "{" /\ \A j \in 1..(i - 1) : record[j] # "{"
        end == CHOOSE i \in 1..Len(record) :
                    record[i] = "\n" /\ \A j \in 1..(i - 1) : record[j] # "\n"
    IN  SubSeq(record, brace + 1, end - 2)

\* C30: the citation keys of the entries of one exportToBibTeX output are
\* pairwise distinct.
C30_KeysDistinct ==
    (Exported /\ eFormat = "bibtex") =>
        \A i, j \in 1..Len(eRecords) :
            i # j => KeyOfEntry(eRecords[i]) # KeyOfEntry(eRecords[j])

\* two different articles of the year 1999 whose titles have the same long
\* words get the same key
C30_Witness ==
    /\ epc = "content"
    /\ eFormat = "bibtex"
    /\ Len(eArticles) = 2
    /\ eArticles[1].title = Some(<<"D","e","e","p"," ","N","e","t","s"," ","&"," ","{","A","I","}">>)
    /\ eArticles[1].rest = "all"
    /\ eArticles[2].title = Some(<<"T","h","e"," ","D","e","e","p"," ","N","e","t","s">>)
    /\ Len(eRecords) = 2
    /\ KeyOfEntry(eRecords[1]) = <<"d","e","e","p","n","e","t","s","1","9","9","9">>
    /\ KeyOfEntry(eRecords[2]) = <<"d","e","e","p","n","e","t","s","1","9","9","9">>

----------------------------------------------------------------------------
(* Claims about requests that get no answer                                *)

\* C23: a request the upstream never answers is aborted by its timeout, so
\* every call of _fetchWithZyte ends, with a value or with an error.
C23_FetchCompletes == <>(fpc \in {"returned", "thrown"})

\* the second request of a call is out, after one backoff, and nothing but
\* an answer of the proxy lets the call go on
C23_Witness ==
    /\ fpc = "request"
    /\ attempt = 2
    /\ Len(history) = 1 /\ Len(sleeps) = 1
    /\ ~ENABLED FetchEnter
    /\ ~ENABLED Wake

----------------------------------------------------------------------------
(* Claims about a window of results                                        *)

\* the 0-based positions asked for: [start_index, start_index + count)
AskedPositions == gStartIndex..(gStartIndex + gCount - 1)

GetReturned == gpc = "done" /\ gResult.kind = "value"

\* C22: a call of getArticles in relevance order returns at most count
\* articles, reports as count_returned the number it returns, and returns
\* only articles whose position in the portal's result list lies in
\* [start_index, start_index + count)
C22_WindowOfResults ==
    GetReturned =>
        /\ Len(gResult.articles) <= gCount
        /\ gResult.count_returned = Len(gResult.articles)
        /\ \A i \in 1..Len(gResult.articles) :
              \E pos \in AskedPositions :
                  gResult.articles[i].vals.title = TitleOf(pos)

\* of the three results of the portal the first has no identifier that
\* can be extracted, every fetch succeeded, and the call returned the
\* result at position 2 for the window [1, 2)
C22_Witness ==
    /\ GetReturned
    /\ totalItems = 3
    /\ gStartIndex = 1 /\ gCount = 1
    /\ gFailedPages = {}
    /\ dFailed = {}
    /\ 0 \in noIdEntries
    /\ Len(gAllArticles) = 2
    /\ gAllArticles[1].vals.title = TitleOf(1)
    /\ Len(gResult.articles) = 1
    /\ gResult.articles[1].vals.title = TitleOf(2)
    /\ gResult.count_returned = 1

----------------------------------------------------------------------------
(* Claims about search exports and repeated exports                        *)

\* a search export whose search yielded no article
EmptySearchExport == eOp \in SearchOps /\ eArticles = <<>>

\* the errors a failed preview fetch ends searchArticles with
PreviewFailures ==
    {PreviewFailure(message) : message \in FetchErrorMessages(PreviewUrl)}

\* such a call is either still waiting for its preview or its search, or
\* has thrown
ThrownOnEmpty ==
    (EmptySearchExport /\ epc \notin {"preview", "search"}) =>
        /\ epc = "done"
        /\ xResult \in {NoArticlesError} \cup PreviewFailures
        /\ eResult = NoResult

\* the search of such a call ends in the error, with no directory made and
\* no file written
EmptySearchStep ==
    (EmptySearchExport /\ epc = "search" /\ epc' # "search"
       /\ xResult' \notin PreviewFailures) =>
        /\ xResult' = NoArticlesError
        /\ fsDirs' = fsDirs
        /\ fsFiles' = fsFiles
        /\ fsWrites' = fsWrites

\* C21: when its search yields no article, exportSearch or searchArticles
\* throws 'No articles found for export' and leaves the directories and
\* files as they were: no export directory, no bibliographic file and no
\* metadata.json
C21_EmptyExportAborts == []ThrownOnEmpty /\ [][EmptySearchStep]_vars

\* a second search export found nothing and threw, after a first one had
\* made its directory and written its two files, which are all there is
C21_Witness ==
    /\ EmptySearchExport /\ eOp = "exportSearch" /\ eCall = 2
    /\ epc = "done"
    /\ xResult = NoArticlesError
    /\ Len(fsWrites) = 2
    /\ \A i \in 1..2 : fsWrites[i].call = 1
    /\ Cardinality(fsDirs) = 2
    /\ Cardinality(DOMAIN fsFiles) = 2

\* two clock values of the same second
SameSecond(a, b) == [a EXCEPT !.ms = 0] = [b EXCEPT !.ms = 0]

\* C29: two exports within one clock second into the same directory, with
\* no filename given, never write the same path
C29_NoSharedPath ==
    \A i, j \in 1..Len(fsWrites) :
        (/\ fsWrites[i].call # fsWrites[j].call
         /\ SameSecond(fsWrites[i].at, fsWrites[j].at)
         /\ ~fsWrites[i].named /\ ~fsWrites[j].named)
        => fsWrites[i].path # fsWrites[j].path

\* exportToRISFile ran twice in one second with neither directory nor
\* filename: both calls wrote /w/capes_export_20260105090307.ris, and the
\* file holds what the second call wrote
C29_Witness ==
    /\ eOp = "file" /\ eFormat = "ris" /\ eCall = 2 /\ epc = "done"
    /\ eOutputDir = None /\ eFilename = None
    /\ Len(fsWrites) = 2
    /\ fsWrites[1].path = fsWrites[2].path
    /\ fsWrites[1].at.ms = 41 /\ fsWrites[2].at.ms = 999
    /\ fsWrites[2].path = PathJoin(Cwd, <<"c","a","p","e","s","_","e","x","p","o","r","t","_","2","0","2","6","0","1","0","5","0","9","0","3","0","7",".","r","i","s">>)
    /\ DOMAIN fsFiles = {fsWrites[2].path}
    /\ fsFiles[fsWrites[2].path] = eContent

============================================================================
